---- MODULE Spec2Model ----
(***************************************************************************)
(* Model of the PF2e corpus builder (pf2_extract_v6.py: create_database)   *)
(* and of the search engine that reads the corpus (pf2_search_v5.py:       *)
(* search, main).                                                          *)
(*                                                                         *)
(* Text is modelled as a sequence of Unicode code points, so that the      *)
(* three case/diacritic conversions the program mixes -- Python's          *)
(* str.lower(), SQLite's ASCII-only LOWER()/LIKE and normalize_text() --   *)
(* are computed as the code computes them and can disagree.                *)
(*   32 ' '   37 '%'   45 '-'   58 ':'   95 '_'                            *)
(*   65..90 'A'..'Z'   97..122 'a'..'z'   48..57 '0'..'9'                  *)
(*   201 'E acute'   233 'e acute'   769 combining acute accent (Mn)       *)
(***************************************************************************)
EXTENDS Integers, Sequences, FiniteSets, TLC

(***************************************************************************)
(* Text primitives                                                         *)
(***************************************************************************)

\* str.lower() on one code point (ASCII and Latin-1 capital letters).
PyLowerChar(c) ==
    IF c \in 65..90 \/ (c \in 192..222 /\ c # 215) THEN c + 32 ELSE c

\* SQLite's built-in LOWER()/LIKE fold ASCII letters only.
SqliteLowerChar(c) == IF c \in 65..90 THEN c + 32 ELSE c

PyLower(s) == [i \in 1..Len(s) |-> PyLowerChar(s[i])]

SqliteLower(s) == [i \in 1..Len(s) |-> SqliteLowerChar(s[i])]

\* str.isspace() on one code point.
IsSpace(c) == c \in {9, 10, 11, 12, 13, 32}

RECURSIVE LStrip(_)
LStrip(s) == IF s # <<>> /\ IsSpace(Head(s)) THEN LStrip(Tail(s)) ELSE s

RECURSIVE RStrip(_)
RStrip(s) ==
    IF s # <<>> /\ IsSpace(s[Len(s)]) THEN RStrip(SubSeq(s, 1, Len(s) - 1)) ELSE s

\* str.strip()
Strip(s) == RStrip(LStrip(s))

\* The accented capital vowels of Latin-1 with a grave, acute or circumflex
\* accent, as (first code point of the group, base letter).
AccentGroups ==
    {<<192, 65>>, <<200, 69>>, <<204, 73>>, <<210, 79>>, <<217, 85>>}

\* unicodedata.normalize('NFD', c) for one code point: the canonical
\* decomposition of an accented Latin-1 vowel into base letter + combining
\* mark (768 grave, 769 acute, 770 circumflex); other code points are kept.
NFDChar(c) ==
    LET low == IF c >= 224 THEN 32 ELSE 0
        u   == c - low
        g   == {p \in AccentGroups : u \in p[1]..(p[1] + 2)}
    IN  IF g = {} THEN <<c>>
        ELSE LET p == CHOOSE x \in g : TRUE
             IN  <<p[2] + low, 768 + (u - p[1])>>

RECURSIVE NFD(_)
NFD(s) == IF s = <<>> THEN <<>> ELSE NFDChar(Head(s)) \o NFD(Tail(s))

\* unicodedata.category(c) == 'Mn' (combining diacritical marks block).
IsMn(c) == c \in 768..879

NotMn(c) == ~IsMn(c)

\* normalize_text: NFD, drop the combining marks, lower-case.
normalize_text(text) == PyLower(SelectSeq(NFD(text), NotMn))

\* str.isalnum() on one code point (digits, ASCII and Latin-1 letters).
IsAlnumChar(c) ==
    \/ c \in 48..57
    \/ c \in 65..90
    \/ c \in 97..122
    \/ (c \in 192..255 /\ c # 215 /\ c # 247)

\* str.isalnum(): non-empty and every character alphanumeric.
IsAlnum(s) == s # <<>> /\ \A i \in 1..Len(s) : IsAlnumChar(s[i])

NotDash(c) == c # 45

\* str.replace("-", "")
RemoveDashes(s) == SelectSeq(s, NotDash)

\* str.startswith
StartsWith(s, p) == Len(p) =< Len(s) /\ SubSeq(s, 1, Len(p)) = p

\* the Python substring test  p in s
Contains(s, p) ==
    \E i \in 0..(Len(s) - Len(p)) : SubSeq(s, i + 1, i + Len(p)) = p

\* Lexicographic order of two strings by code point (Python's str <).
RECURSIVE StrLess(_, _)
StrLess(a, b) ==
    IF b = <<>> THEN FALSE
    ELSE IF a = <<>> THEN TRUE
    ELSE IF Head(a) # Head(b) THEN Head(a) < Head(b)
    ELSE StrLess(Tail(a), Tail(b))

\* SQLite's  s LIKE pat  without ESCAPE: '%' matches any run of characters,
\* '_' any single character, other characters compare with ASCII case
\* folded.
RECURSIVE Like(_, _)
Like(pat, s) ==
    IF pat = <<>> THEN s = <<>>
    ELSE IF Head(pat) = 37
         THEN Like(Tail(pat), s) \/ (s # <<>> /\ Like(pat, Tail(s)))
    ELSE /\ s # <<>>
         /\ \/ Head(pat) = 95
            \/ SqliteLowerChar(Head(pat)) = SqliteLowerChar(Head(s))
         /\ Like(Tail(pat), Tail(s))

(***************************************************************************)
(* The persisted corpus                                                    *)
(***************************************************************************)

\* create_database: the columns of the row persisted for one entry; `data`
\* is the entry itself (json.dumps on the way in, json.loads on the way
\* out, which is the identity on the strings, lists and booleans of an
\* entry).
RowOf(entry) ==
    [id         |-> entry._id,
     pack       |-> entry._pack,
     name_fr    |-> entry.name_fr,
     name_en    |-> entry.name_en,
     type       |-> entry._pack_type,
     translated |-> IF entry._translated THEN 1 ELSE 0,
     data       |-> entry]

\* The primary key of a row: PRIMARY KEY (pack, id).
PrimaryKey(row) == <<row.pack, row.id>>

(***************************************************************************)
(* search (pf2_search_v5.py)                                               *)
(***************************************************************************)

\* The trait filter of add_results / add_entry_if_match: no filter, or some
\* trait of the entry contains the filter, both lower-cased.
TraitMatch(entry, trait_filter) ==
    \/ trait_filter = <<>>
    \/ \E i \in 1..Len(entry.traits) :
          Contains(PyLower(entry.traits[i]), PyLower(trait_filter))

\* key = f"{entry.get('_pack')}:{entry.get('_id')}"
SeenKey(entry) == entry._pack \o <<58>> \o entry._id

\* Appending without the seen_keys test.
AddAlways(st, entry, score) ==
    [results |-> Append(st.results, [score |-> score, entry |-> entry]),
     seen    |-> st.seen \cup {SeenKey(entry)}]

\* The tail of add_results / add_entry_if_match: append (score, entry)
\* unless its key was already seen.
AddUnseen(st, entry, score) ==
    IF SeenKey(entry) \in st.seen
    THEN st
    ELSE [results |-> Append(st.results, [score |-> score, entry |-> entry]),
          seen    |-> st.seen \cup {SeenKey(entry)}]

\* add_results: the rows a statement returned, in order, each filtered by
\* trait and deduplicated.
RECURSIVE add_results(_, _, _, _)
add_results(st, rows, trait_filter, score) ==
    IF rows = <<>> THEN st
    ELSE add_results(
            IF TraitMatch(Head(rows).data, trait_filter)
            THEN AddUnseen(st, Head(rows).data, score)
            ELSE st,
            Tail(rows), trait_filter, score)

\* add_entry_if_match: trait, type and pack filters on the decoded entry,
\* then deduplication.
add_entry_if_match(st, entry, score, entry_type, pack_filter, trait_filter) ==
    IF ~TraitMatch(entry, trait_filter) THEN st
    ELSE IF entry_type # "" /\ entry.type # entry_type THEN st
    ELSE IF pack_filter # <<>>
            /\ ~Contains(PyLower(entry._pack), PyLower(pack_filter)) THEN st
    ELSE AddUnseen(st, entry, score)

\* The shape test without the removal of '-'.
LooksLikeIdNoDash(query) == Len(query) >= 8 /\ IsAlnum(query)

\* The identifier shape test of tier 1.
LooksLikeId(query) == Len(query) >= 8 /\ IsAlnum(RemoveDashes(query))

\* SELECT data FROM entries WHERE id = ?  -- the rows, in table order.
RowsById(table, query) == SelectSeq(table, LAMBDA r : r.id = query)

\* The statements built without the type clause.
TypeClauseOff(row, entry_type) == TRUE

\* " AND type = ?" when a category filter is given.
TypeClause(row, entry_type) == entry_type = "" \/ row.type = entry_type

\* " AND pack LIKE ?" with parameter %pack_filter% when a pack filter is
\* given.
PackClause(row, pack_filter) ==
    pack_filter = <<>> \/ Like(<<37>> \o pack_filter \o <<37>>, row.pack)

\* The six name statements in the order the code runs them, with their
\* scores: LOWER(name) = ?, LOWER(name) LIKE 'q%', LOWER(name) LIKE '%q%'.
RawTiers ==
    << [kind |-> "exact",    col |-> "fr", score |-> 1000],
       [kind |-> "exact",    col |-> "en", score |-> 950],
       [kind |-> "prefix",   col |-> "fr", score |-> 500],
       [kind |-> "prefix",   col |-> "en", score |-> 450],
       [kind |-> "contains", col |-> "fr", score |-> 200],
       [kind |-> "contains", col |-> "en", score |-> 150] >>

\* The WHERE condition on the name column of one statement.
NameClause(row, tier, query_lower) ==
    LET v == SqliteLower(IF tier.col = "fr" THEN row.name_fr ELSE row.name_en)
    IN  CASE tier.kind = "exact"    -> v = query_lower
          [] tier.kind = "prefix"   -> Like(query_lower \o <<37>>, v)
          [] tier.kind = "contains" -> Like(<<37>> \o query_lower \o <<37>>, v)

\* The rows one name statement returns.
TierRows(table, tier, query_lower, entry_type, pack_filter) ==
    SelectSeq(table, LAMBDA r : /\ NameClause(r, tier, query_lower)
                                /\ TypeClause(r, entry_type)
                                /\ PackClause(r, pack_filter))

\* Tiers 2-4: the six statements, each fed to add_results.
RECURSIVE RunRawTiers(_, _, _, _, _, _, _)
RunRawTiers(st, i, table, query_lower, entry_type, pack_filter, trait_filter) ==
    IF i > Len(RawTiers) THEN st
    ELSE RunRawTiers(
            add_results(st,
                        TierRows(table, RawTiers[i], query_lower,
                                 entry_type, pack_filter),
                        trait_filter, RawTiers[i].score),
            i + 1, table, query_lower, entry_type, pack_filter, trait_filter)

\* The re-scan runs when tiers 2-4 found fewer than 5 entries or the query
\* has diacritics (its normalisation differs from its lower-casing).
RescanTriggered(n, query_lower, query_normalized) ==
    n < 5 \/ query_normalized # query_lower

\* The re-scan scored below every raw tier.
NormScoreLow(entry, query_normalized) ==
    LET name_fr_norm == normalize_text(entry.name_fr)
        name_en_norm == normalize_text(entry.name_en)
    IN  IF name_fr_norm = query_normalized THEN 90
        ELSE IF name_en_norm = query_normalized THEN 85
        ELSE IF StartsWith(name_fr_norm, query_normalized) THEN 40
        ELSE IF StartsWith(name_en_norm, query_normalized) THEN 35
        ELSE IF Contains(name_fr_norm, query_normalized) THEN 10
        ELSE IF Contains(name_en_norm, query_normalized) THEN 5
        ELSE 0

\* The re-scan comparing names that were lower-cased but not normalised.
NormScoreRaw(entry, query_normalized) ==
    LET name_fr_norm == PyLower(entry.name_fr)
        name_en_norm == PyLower(entry.name_en)
    IN  IF name_fr_norm = query_normalized THEN 900
        ELSE IF name_en_norm = query_normalized THEN 850
        ELSE IF StartsWith(name_fr_norm, query_normalized) THEN 400
        ELSE IF StartsWith(name_en_norm, query_normalized) THEN 350
        ELSE IF Contains(name_fr_norm, query_normalized) THEN 100
        ELSE IF Contains(name_en_norm, query_normalized) THEN 50
        ELSE 0

\* The if/elif chain of the re-scan: the score of the first matching test
\* on the normalised names, 0 when none matches.
NormScore(entry, query_normalized) ==
    LET name_fr_norm == normalize_text(entry.name_fr)
        name_en_norm == normalize_text(entry.name_en)
    IN  IF name_fr_norm = query_normalized THEN 900
        ELSE IF name_en_norm = query_normalized THEN 850
        ELSE IF StartsWith(name_fr_norm, query_normalized) THEN 400
        ELSE IF StartsWith(name_en_norm, query_normalized) THEN 350
        ELSE IF Contains(name_fr_norm, query_normalized) THEN 100
        ELSE IF Contains(name_en_norm, query_normalized) THEN 50
        ELSE 0

\* Tier 5: every row (of the category, if filtered), scored on normalised
\* names and passed to add_entry_if_match.
RECURSIVE Rescan(_, _, _, _, _, _)
Rescan(st, rows, query_normalized, entry_type, pack_filter, trait_filter) ==
    IF rows = <<>> THEN st
    ELSE LET e == Head(rows).data
             sc == NormScore(e, query_normalized)
         IN  Rescan(IF sc = 0 THEN st
                    ELSE add_entry_if_match(st, e, sc, entry_type,
                                            pack_filter, trait_filter),
                    Tail(rows), query_normalized, entry_type, pack_filter,
                    trait_filter)

\* The sort key order: (-score, name_fr.lower()).
SortsBefore(a, b) ==
    \/ a.score > b.score
    \/ /\ a.score = b.score
       /\ StrLess(PyLower(a.entry.name_fr), PyLower(b.entry.name_fr))

\* list.sort is stable: x goes after every element it does not sort before.
RECURSIVE InsertSorted(_, _)
InsertSorted(sorted, x) ==
    IF sorted = <<>> THEN <<x>>
    ELSE IF SortsBefore(x, Head(sorted)) THEN <<x>> \o sorted
    ELSE <<Head(sorted)>> \o InsertSorted(Tail(sorted), x)

RECURSIVE SortResults(_)
SortResults(rs) ==
    IF rs = <<>> THEN <<>>
    ELSE InsertSorted(SortResults(SubSeq(rs, 1, Len(rs) - 1)), rs[Len(rs)])

\* results[:limit] for a positive limit
Truncate(s, limit) == SubSeq(s, 1, IF Len(s) < limit THEN Len(s) ELSE limit)

\* search(query, conn, entry_type, pack_filter, trait_filter, limit) on the
\* table the connection reads.  by_id tells that tier 1 answered; ranked is
\* the sorted (score, entry) list before truncation.
search(query, table, entry_type, pack_filter, trait_filter, limit) ==
    LET query_lower      == Strip(PyLower(query))
        query_normalized == normalize_text(query)
        idRows           == IF LooksLikeId(query) THEN RowsById(table, query)
                            ELSE <<>>
        st0              == [results |-> <<>>, seen |-> {}]
        st1              == RunRawTiers(st0, 1, table, query_lower, entry_type,
                                        pack_filter, trait_filter)
        rescanRows       == SelectSeq(table,
                                LAMBDA r : TypeClause(r, entry_type))
        st2              == IF RescanTriggered(Len(st1.results), query_lower,
                                               query_normalized)
                            THEN Rescan(st1, rescanRows, query_normalized,
                                        entry_type, pack_filter, trait_filter)
                            ELSE st1
        ranked           == SortResults(st2.results)
    IN  IF idRows # <<>>
        THEN [by_id |-> TRUE, ranked |-> <<>>, results |-> <<idRows[1].data>>]
        ELSE [by_id   |-> FALSE,
              ranked  |-> ranked,
              results |-> [i \in 1..Len(Truncate(ranked, limit)) |->
                              ranked[i].entry]]

(***************************************************************************)
(* list_by_trait (pf2_search_v5.py)                                        *)
(*                                                                         *)
(* An entry carries its level as level (system.level) and details_level    *)
(* (system.details.level): <<>> when the key is absent, <<n>> otherwise.   *)
(***************************************************************************)

\* get_level: system.level, else system.details.level, else None (<<>>).
get_level(entry) ==
    IF entry.level # <<>> THEN entry.level ELSE entry.details_level

\* level or 0
LevelOr0(level) == IF level = <<>> THEN 0 ELSE level[1]

\* The sort key of list_by_trait taken from get_level.
ListKeyLevel(entry) == LevelOr0(get_level(entry))

\* The level of the sort key: entry.system.level only, 0 when it is absent.
ListKey(entry) == LevelOr0(entry.level)

\* The sort key order: (level, name_fr.lower()).
ListSortsBefore(a, b) ==
    \/ ListKey(a) < ListKey(b)
    \/ /\ ListKey(a) = ListKey(b)
       /\ StrLess(PyLower(a.name_fr), PyLower(b.name_fr))

RECURSIVE ListInsertSorted(_, _)
ListInsertSorted(sorted, x) ==
    IF sorted = <<>> THEN <<x>>
    ELSE IF ListSortsBefore(x, Head(sorted)) THEN <<x>> \o sorted
    ELSE <<Head(sorted)>> \o ListInsertSorted(Tail(sorted), x)

RECURSIVE ListSort(_)
ListSort(es) ==
    IF es = <<>> THEN <<>>
    ELSE ListInsertSorted(ListSort(SubSeq(es, 1, Len(es) - 1)), es[Len(es)])

\* any(trait_lower in t.lower() for t in traits)
HasTrait(entry, trait) ==
    \E i \in 1..Len(entry.traits) :
        Contains(PyLower(entry.traits[i]), PyLower(trait))

\* list_by_trait(conn, trait, entry_type, limit) on the table the
\* connection reads.
list_by_trait(table, trait, entry_type, limit) ==
    LET rows    == SelectSeq(table, LAMBDA r : TypeClause(r, entry_type))
        entries == [k \in 1..Len(rows) |-> rows[k].data]
        kept    == SelectSeq(entries, LAMBDA e : HasTrait(e, trait))
    IN  Truncate(ListSort(kept), limit)

(***************************************************************************)
(* interactive (pf2_search_v5.py)                                          *)
(***************************************************************************)

\* TYPE_SHORTCUTS, in the order of the dictionary.
TYPE_SHORTCUTS ==
    << [prefix |-> <<99, 114, 233, 97, 116, 117, 114, 101, 58>>, category |-> "créature"],
       [prefix |-> <<99, 114, 101, 97, 116, 117, 114, 101, 58>>, category |-> "créature"],
       [prefix |-> <<109, 111, 110, 115, 116, 114, 101, 58>>, category |-> "créature"],
       [prefix |-> <<110, 112, 99, 58>>, category |-> "créature"],
       [prefix |-> <<112, 110, 106, 58>>, category |-> "créature"],
       [prefix |-> <<115, 111, 114, 116, 58>>, category |-> "sort"],
       [prefix |-> <<115, 112, 101, 108, 108, 58>>, category |-> "sort"],
       [prefix |-> <<100, 111, 110, 58>>, category |-> "don"],
       [prefix |-> <<102, 101, 97, 116, 58>>, category |-> "don"],
       [prefix |-> <<233, 113, 117, 105, 112, 101, 109, 101, 110, 116, 58>>, category |-> "équipement"],
       [prefix |-> <<101, 113, 117, 105, 112, 58>>, category |-> "équipement"],
       [prefix |-> <<111, 98, 106, 101, 116, 58>>, category |-> "équipement"],
       [prefix |-> <<97, 114, 109, 101, 58>>, category |-> "arme"],
       [prefix |-> <<119, 101, 97, 112, 111, 110, 58>>, category |-> "arme"],
       [prefix |-> <<97, 114, 109, 117, 114, 101, 58>>, category |-> "armure"],
       [prefix |-> <<97, 114, 109, 111, 114, 58>>, category |-> "armure"],
       [prefix |-> <<97, 99, 116, 105, 111, 110, 58>>, category |-> "action"],
       [prefix |-> <<100, 97, 110, 103, 101, 114, 58>>, category |-> "danger"],
       [prefix |-> <<104, 97, 122, 97, 114, 100, 58>>, category |-> "danger"],
       [prefix |-> <<233, 116, 97, 116, 58>>, category |-> "état"],
       [prefix |-> <<99, 111, 110, 100, 105, 116, 105, 111, 110, 58>>, category |-> "état"],
       [prefix |-> <<99, 108, 97, 115, 115, 101, 58>>, category |-> "classe"],
       [prefix |-> <<99, 108, 97, 115, 115, 58>>, category |-> "classe"],
       [prefix |-> <<99, 111, 109, 112, 97, 103, 110, 111, 110, 58>>, category |-> "compagnon"],
       [prefix |-> <<99, 111, 109, 112, 97, 110, 105, 111, 110, 58>>, category |-> "compagnon"],
       [prefix |-> <<114, 232, 103, 108, 101, 58>>, category |-> "règle"],
       [prefix |-> <<114, 101, 103, 108, 101, 58>>, category |-> "règle"],
       [prefix |-> <<114, 117, 108, 101, 58>>, category |-> "règle"],
       [prefix |-> <<116, 114, 97, 105, 116, 100, 101, 102, 58>>, category |-> "trait"],
       [prefix |-> <<100, 233, 102, 105, 110, 105, 116, 105, 111, 110, 58>>, category |-> "trait"],
       [prefix |-> <<99, 97, 112, 97, 99, 105, 116, 233, 58>>, category |-> "capacité"],
       [prefix |-> <<97, 98, 105, 108, 105, 116, 121, 58>>, category |-> "capacité"],
       [prefix |-> <<110, 112, 99, 97, 58>>, category |-> "capacité"],
       [prefix |-> <<109, 97, 116, 233, 114, 105, 97, 117, 58>>, category |-> "matériau"],
       [prefix |-> <<109, 97, 116, 101, 114, 105, 97, 117, 58>>, category |-> "matériau"],
       [prefix |-> <<109, 97, 116, 101, 114, 105, 97, 108, 58>>, category |-> "matériau"],
       [prefix |-> <<103, 108, 111, 115, 115, 97, 105, 114, 101, 58>>, category |-> "glossaire"],
       [prefix |-> <<103, 108, 111, 115, 115, 58>>, category |-> "glossaire"],
       [prefix |-> <<114, 101, 102, 58>>, category |-> "glossaire"] >>

\* str.isdigit() holds for the decimal digits and for digits no number is
\* written with, such as the superscript two.
IsDigitChar(c) == c \in 48..57 \/ c = 178

isdigit(s) == s # <<>> /\ \A i \in 1..Len(s) : IsDigitChar(s[i])

\* int(s) raises ValueError on a digit that is not decimal.
IntRaises(s) == \E i \in 1..Len(s) : s[i] \notin 48..57

RECURSIVE PyInt(_)
PyInt(s) ==
    IF s = <<>> THEN 0
    ELSE 10 * PyInt(SubSeq(s, 1, Len(s) - 1)) + (s[Len(s)] - 48)

\* rest.split(None, 1): the first word, and what follows it.
RECURSIVE TokenLen(_)
TokenLen(s) ==
    IF s = <<>> \/ IsSpace(Head(s)) THEN 0 ELSE 1 + TokenLen(Tail(s))

FirstToken(s) == SubSeq(s, 1, TokenLen(s))

AfterToken(s) == LStrip(SubSeq(s, TokenLen(s) + 1, Len(s)))

\* The type filter: the first shortcut the input starts with.
TypeStep(query) ==
    LET hits == SelectSeq(TYPE_SHORTCUTS,
                          LAMBDA sc : StartsWith(PyLower(query), sc.prefix))
    IN  IF hits = <<>> THEN [entry_type |-> "", query |-> query]
        ELSE [entry_type |-> hits[1].category,
              query |-> Strip(SubSeq(query, Len(hits[1].prefix) + 1,
                                     Len(query)))]

\* The pack: and trait: filters: the word after the prefix is the filter,
\* the rest is the query; a prefix with nothing after it is left in place.
WordStep(query, prefix) ==
    LET rest == Strip(SubSeq(query, Len(prefix) + 1, Len(query)))
    IN  IF StartsWith(PyLower(query), prefix) /\ rest # <<>>
        THEN [filter |-> FirstToken(rest), query |-> AfterToken(rest)]
        ELSE [filter |-> <<>>, query |-> query]

PackPrefix == <<112, 97, 99, 107, 58>>

TraitPrefix == <<116, 114, 97, 105, 116, 58>>

FullPrefix == <<102, 117, 108, 108, 32>>

\* The filters and the query of an input line.
ParseInput(user_input) ==
    LET t == TypeStep(user_input)
        p == WordStep(t.query, PackPrefix)
        r == WordStep(p.query, TraitPrefix)
    IN  [entry_type |-> t.entry_type, pack_filter |-> p.filter,
         trait_filter |-> r.filter, query |-> r.query]

IntrospectionCommands ==
    {<<115, 116, 97, 116, 115>>, <<116, 121, 112, 101, 115>>, <<112, 97, 99, 107, 115>>, <<116, 114, 97, 105, 116, 115>>}

\* The branch of the loop body an input line takes.
InputKind(line) ==
    LET u == Strip(line)
        p == ParseInput(u)
    IN  IF u = <<>> THEN "blank"
        ELSE IF PyLower(u) = <<113>> THEN "quit"
        ELSE IF PyLower(u) \in IntrospectionCommands THEN "introspect"
        ELSE IF isdigit(u) THEN "number"
        ELSE IF StartsWith(PyLower(u), FullPrefix) THEN "full"
        ELSE IF p.trait_filter # <<>> /\ p.query = <<>> THEN "listing"
        ELSE IF p.query = <<>> THEN "empty"
        ELSE "search"

\* What an iteration printed: its kind and the entries it displayed.
Shown(kind, entries) == [kind |-> kind, entries |-> entries]

\* The detail request for the number idx over the remembered list.
DetailZeroBased(list, idx) ==
    IF 0 =< idx /\ idx < Len(list)
    THEN Shown("full", <<list[idx + 1]>>)
    ELSE Shown("invalid", <<>>)

Detail(list, idx) ==
    IF 1 =< idx /\ idx =< Len(list)
    THEN Shown("full", <<list[idx]>>)
    ELSE Shown("invalid", <<>>)

\* last_results = results
RememberFound(found, last) == IF found = <<>> THEN last ELSE found

Remember(found, last) == found

\* limit=50 of the trait listing.
ListingLimit == 50

\* The lines typed at the prompt.
InputLines ==
    {
      <<>>,  \* ''
      <<32, 32>>,  \* '  '
      <<113>>,  \* 'q'
      <<81>>,  \* 'Q'
      <<115, 116, 97, 116, 115>>,  \* 'stats'
      <<84, 121, 112, 101, 115>>,  \* 'Types'
      <<112, 97, 99, 107, 115>>,  \* 'packs'
      <<116, 114, 97, 105, 116, 115>>,  \* 'traits'
      <<49>>,  \* '1'
      <<50>>,  \* '2'
      <<48>>,  \* '0'
      <<48, 50>>,  \* '02'
      <<57>>,  \* '9'
      <<178>>,  \* '²'
      <<102, 117, 108, 108, 32, 49>>,  \* 'full 1'
      <<70, 85, 76, 76, 32, 50>>,  \* 'FULL 2'
      <<102, 117, 108, 108, 32, 57>>,  \* 'full 9'
      <<102, 117, 108, 108, 32, 120>>,  \* 'full x'
      <<102, 117, 108, 108, 32, 178>>,  \* 'full ²'
      <<102, 117, 108, 108>>,  \* 'full'
      <<115, 111, 114, 116, 58>>,  \* 'sort:'
      <<112, 97, 99, 107, 58, 115, 112>>,  \* 'pack:sp'
      <<112, 97, 99, 107, 58>>,  \* 'pack:'
      <<116, 114, 97, 105, 116, 58, 102, 105, 114, 101>>,  \* 'trait:fire'
      <<116, 114, 97, 105, 116, 58, 122, 122>>,  \* 'trait:zz'
      <<115, 111, 114, 116, 58, 32, 116, 114, 97, 105, 116, 58, 102, 105, 114>>,  \* 'sort: trait:fir'
      <<110, 112, 99, 58, 116, 114, 97, 105, 116, 58, 70, 73, 82, 69>>,  \* 'npc:trait:FIRE'
      <<102, 101>>,  \* 'fe'
      <<122, 122>>,  \* 'zz'
      <<97>>,  \* 'a'
      <<115, 111, 114, 116, 58, 97>>,  \* 'sort:a'
      <<116, 114, 97, 105, 116, 58, 102, 105, 114, 101, 32, 97>>,  \* 'trait:fire a'
      <<112, 97, 99, 107, 58, 98, 115, 32, 32, 117>>,  \* 'pack:bs  u'
      <<101>>   \* 'e'
    }

(***************************************************************************)
(* Type classifier (pf2_extract_v6.py)                                     *)
(***************************************************************************)

\* TYPE_MAP: explicit type tag -> category.
TYPE_MAP ==
    ("npc" :> "créature") @@
    ("creature" :> "créature") @@
    ("character" :> "créature") @@
    ("hazard" :> "danger") @@
    ("spell" :> "sort") @@
    ("feat" :> "don") @@
    ("action" :> "action") @@
    ("equipment" :> "équipement") @@
    ("treasure" :> "trésor") @@
    ("backpack" :> "conteneur") @@
    ("weapon" :> "arme") @@
    ("armor" :> "armure") @@
    ("shield" :> "bouclier") @@
    ("consumable" :> "consommable") @@
    ("ancestry" :> "ascendance") @@
    ("heritage" :> "héritage") @@
    ("background" :> "historique") @@
    ("class" :> "classe") @@
    ("archetype" :> "archétype") @@
    ("deity" :> "divinité") @@
    ("effect" :> "effet") @@
    ("condition" :> "état") @@
    ("familiar" :> "familier") @@
    ("vehicle" :> "véhicule")

\* PACK_TYPE_MAP: collection-name fragment -> category, in the order the
\* dictionary is written (the order  for key, val in ...items()  visits).
PACK_TYPE_MAP ==
    << [key |-> <<112, 97, 116, 104, 102, 105, 110, 100, 101,
                  114, 45, 98, 101, 115, 116, 105, 97, 114, 121>>,   \* pathfinder-bestiary
        val |-> "créature"],
       [key |-> <<98, 101, 115, 116, 105, 97, 114, 121>>,   \* bestiary
        val |-> "créature"],
       [key |-> <<112, 97, 116, 104, 102, 105, 110, 100, 101, 114, 45,
                  109, 111, 110, 115, 116, 101, 114, 45, 99, 111, 114, 101>>,   \* pathfinder-monster-core
        val |-> "créature"],
       [key |-> <<109, 111, 110, 115, 116, 101, 114, 45, 99, 111, 114, 101>>,   \* monster-core
        val |-> "créature"],
       [key |-> <<110, 112, 99>>,   \* npc
        val |-> "créature"],
       [key |-> <<104, 97, 122, 97, 114, 100, 115>>,   \* hazards
        val |-> "danger"],
       [key |-> <<115, 112, 101, 108, 108, 115>>,   \* spells
        val |-> "sort"],
       [key |-> <<102, 101, 97, 116, 115>>,   \* feats
        val |-> "don"],
       [key |-> <<97, 99, 116, 105, 111, 110, 115>>,   \* actions
        val |-> "action"],
       [key |-> <<101, 113, 117, 105, 112, 109, 101, 110, 116>>,   \* equipment
        val |-> "équipement"],
       [key |-> <<119, 101, 97, 112, 111, 110, 115>>,   \* weapons
        val |-> "arme"],
       [key |-> <<97, 114, 109, 111, 114>>,   \* armor
        val |-> "armure"],
       [key |-> <<99, 111, 110, 115, 117, 109, 97, 98, 108, 101, 115>>,   \* consumables
        val |-> "consommable"],
       [key |-> <<97, 110, 99, 101, 115, 116, 114, 105, 101, 115>>,   \* ancestries
        val |-> "ascendance"],
       [key |-> <<104, 101, 114, 105, 116, 97, 103, 101, 115>>,   \* heritages
        val |-> "héritage"],
       [key |-> <<98, 97, 99, 107, 103, 114, 111, 117, 110, 100, 115>>,   \* backgrounds
        val |-> "historique"],
       [key |-> <<99, 108, 97, 115, 115, 101, 115>>,   \* classes
        val |-> "classe"],
       [key |-> <<97, 114, 99, 104, 101, 116, 121, 112, 101, 115>>,   \* archetypes
        val |-> "archétype"],
       [key |-> <<100, 101, 105, 116, 105, 101, 115>>,   \* deities
        val |-> "divinité"],
       [key |-> <<99, 111, 110, 100, 105, 116, 105, 111, 110, 115>>,   \* conditions
        val |-> "état"],
       [key |-> <<102, 97, 109, 105, 108, 105, 97, 114>>,   \* familiar
        val |-> "familier"],
       [key |-> <<118, 101, 104, 105, 99, 108, 101, 115>>,   \* vehicles
        val |-> "véhicule"],
       [key |-> <<97, 110, 105, 109, 97, 108, 45, 99,
                  111, 109, 112, 97, 110, 105, 111, 110, 115>>,   \* animal-companions
        val |-> "compagnon"],
       [key |-> <<101, 105, 100, 111, 108, 111, 110, 115>>,   \* eidolons
        val |-> "eidolon"] >>

\* str.replace(sub, ""): every non-overlapping occurrence of sub, scanning
\* from the left, is removed.
RECURSIVE Remove(_, _)
Remove(s, sub) ==
    IF Len(s) < Len(sub) THEN s
    ELSE IF StartsWith(s, sub)
         THEN Remove(SubSeq(s, Len(sub) + 1, Len(s)), sub)
         ELSE <<Head(s)>> \o Remove(Tail(s), sub)

\* pack_name.lower().replace(".json", "").replace("-srd", "")
PackLower(pack_name) ==
    Remove(Remove(PyLower(pack_name), <<46, 106, 115, 111, 110>>),
           <<45, 115, 114, 100>>)

\* The heuristics tried with the price test first.
StructuralPriceFirst(system) ==
    IF "price" \in DOMAIN system THEN "équipement"
    ELSE IF "attributes" \in DOMAIN system /\ "hp" \in system["attributes"]
         THEN "créature"
    ELSE IF "traditions" \in DOMAIN system THEN "sort"
    ELSE IF "prerequisites" \in DOMAIN system THEN "don"
    ELSE "autre"

\* The structural heuristics of detect_type_from_entry, in the order of
\* the if statements: attributes.hp, traditions, prerequisites, price.
Structural(system) ==
    IF "attributes" \in DOMAIN system /\ "hp" \in system["attributes"]
    THEN "créature"
    ELSE IF "traditions" \in DOMAIN system THEN "sort"
    ELSE IF "prerequisites" \in DOMAIN system THEN "don"
    ELSE IF "price" \in DOMAIN system THEN "équipement"
    ELSE "autre"

\* The classifier with the structural heuristics ahead of the type table.
detect_type_structural_first(entry) ==
    IF Structural(entry.system) # "autre" THEN Structural(entry.system)
    ELSE IF entry.type \in DOMAIN TYPE_MAP THEN TYPE_MAP[entry.type]
    ELSE "autre"

\* detect_type_from_entry: the type table first, then the structural
\* heuristics, then "autre".
detect_type_from_entry(entry) ==
    IF entry.type \in DOMAIN TYPE_MAP THEN TYPE_MAP[entry.type]
    ELSE Structural(entry.system)

\* detect_type_from_pack: the value of the first fragment, in table order,
\* that the normalised collection name contains; "autre" when none does.
detect_type_from_pack(pack_name) ==
    LET pack_lower == PackLower(pack_name)
        hits == {i \in 1..Len(PACK_TYPE_MAP) :
                    Contains(pack_lower, PACK_TYPE_MAP[i].key)}
    IN  IF hits = {} THEN "autre"
        ELSE PACK_TYPE_MAP[CHOOSE i \in hits : \A j \in hits : i =< j].val

\* An attribute tree that is JSON null: entry.get("system", {}) returns None.
NullSystem == [null |-> TRUE]

\* detect_type_from_entry raises TypeError: the type tag is not in the type
\* table and the test  "attributes" in system  meets a None.
DetectRaises(entry) ==
    entry.type \notin DOMAIN TYPE_MAP /\ entry.system = NullSystem

\* extract_foundry_with_translations, "Detecter le type": the collection
\* name is consulted only when the entry itself gives "autre".
DetectType(item, pack_name) ==
    IF detect_type_from_entry(item) = "autre"
    THEN detect_type_from_pack(pack_name)
    ELSE detect_type_from_entry(item)

(***************************************************************************)
(* Reconciliation (pf2_extract_v6.py: apply_translation,                   *)
(* extract_foundry_with_translations)                                      *)
(*                                                                         *)
(* Names, descriptions and sub-item identifiers are sequences of words     *)
(* (the empty text is <<>>); entry identifiers and collection names are    *)
(* sequences of code points.  A mechanical record is                       *)
(*   [_id, name, type, system, items]                                      *)
(* where system maps each key present in the attribute tree to the set of  *)
(* keys below it, and items is the list of embedded sub-records            *)
(* [_id, name].  A Translation is                                          *)
(*   [uuid, pack, name_en, name_fr, desc_en, desc_fr, status, items]       *)
(* where items maps a sub-item identifier to an ItemTranslation            *)
(*   [id, name_en, name_fr, desc_en, desc_fr].                             *)
(***************************************************************************)

\* translations.get(entry_id) when the identifier is not a key.
None == [none |-> TRUE]

\* A lookup that answers with some translation of the map whatever the key.
GetAny(map, key) ==
    IF DOMAIN map # {} THEN map[CHOOSE k \in DOMAIN map : TRUE] ELSE None

\* dict.get(key) with default None.
Get(map, key) == IF key \in DOMAIN map THEN map[key] ELSE None

\* The operands of  or  taken in the other order.
OrSecond(a, b) == IF b # <<>> THEN b ELSE a

\* Python's  a or b  on texts: a unless it is empty.
Or(a, b) == IF a # <<>> THEN a ELSE b

\* Cross-references as they are written in a description.
RefP0 == "@UUID[Compendium.pf2e.journals.JournalEntry.J1.JournalEntryPage.P0]{Magus}"

RefP1 == "@UUID[Compendium.pf2e.journals.JournalEntry.J1.JournalEntryPage.P1]{Barde}"

RefFeat == "@UUID[Compendium.pf2e.feats-srd.Item.F1]{Don}"

\* Group 1 of the pattern
\*   @UUID\[Compendium\.pf2e\.journals\.JournalEntry\.[^.]+\.JournalEntryPage\.([^\]]+)\]
\* on one word: the page identifier, "" when the word does not match.
PageRef(word) ==
    CASE word = RefP0 -> "P0"
      [] word = RefP1 -> "P1"
      [] OTHER -> ""

\* re.search over a description: group 1 of the leftmost match, "" when
\* there is none.
RECURSIVE SearchPageRef(_)
SearchPageRef(desc) ==
    IF desc = <<>> THEN ""
    ELSE IF PageRef(Head(desc)) # "" THEN PageRef(Head(desc))
    ELSE SearchPageRef(Tail(desc))

\* entry_type in ["class", "ancestry", "archetype"], entry_type being the
\* record's type tag entry.get("type", "").
JournalTags == {"class", "ancestry", "archetype"}

\* The journal step of apply_translation: the fields it sets on the entry,
\* none when the tag is not class-like, the description holds no journal
\* reference or the referenced page is not in the journal map.
JournalFields(entry, trans, journals) ==
    LET page_uuid == SearchPageRef(Or(trans.desc_fr, trans.desc_en))
    IN  IF /\ DOMAIN journals # {}
           /\ entry.type \in JournalTags
           /\ page_uuid # ""
           /\ page_uuid \in DOMAIN journals
        THEN [description_fr |-> journals[page_uuid], _has_journal |-> TRUE]
        ELSE <<>>

\* One sub-record after the loop over entry["items"] ran.
ApplyItem(item, trans_items) ==
    IF item._id # <<>> /\ item._id \in DOMAIN trans_items
    THEN LET item_trans == trans_items[item._id]
         IN  [name_fr     |-> item_trans.name_fr,
              name_en     |-> Or(item_trans.name_en, item.name),
              _translated |-> TRUE]
             @@ (IF item_trans.desc_fr # <<>>
                 THEN [description_fr |-> item_trans.desc_fr]
                 ELSE <<>>)
             @@ item
    ELSE [name_fr     |-> item.name,
          name_en     |-> item.name,
          _translated |-> FALSE] @@ item

\* if "items" in entry and trans.items: the loop runs only under a
\* translation whose sub-item map is not empty.
ApplyItems(items, trans) ==
    IF trans # None /\ DOMAIN trans.items # {}
    THEN [i \in 1..Len(items) |-> ApplyItem(items[i], trans.items)]
    ELSE items

\* apply_translation: the mechanical record with its localized fields set.
apply_translation(entry, trans, journals) ==
    IF trans = None
    THEN [name_fr        |-> entry.name,
          name_en        |-> entry.name,
          description_fr |-> <<>>,
          _translated    |-> FALSE] @@ entry
    ELSE JournalFields(entry, trans, journals)
         @@ [name_fr        |-> trans.name_fr,
             name_en        |-> Or(trans.name_en, entry.name),
             description_fr |-> trans.desc_fr,
             _translated    |-> TRUE,
             _trans_status  |-> trans.status,
             items          |-> ApplyItems(entry.items, trans)]
         @@ entry

\* "Construire l'entree finale": the entry projected from the reconciled
\* record.
FinalEntry(item, entry_id, pack_name, entry_type) ==
    [_id         |-> entry_id,
     _pack       |-> pack_name,
     _pack_type  |-> entry_type,
     _source     |-> "foundry+pf2-fr",
     _translated |-> item._translated,
     name        |-> Or(item.name_fr, item.name),
     name_fr     |-> Or(item.name_fr, item.name),
     name_en     |-> Or(item.name_en, item.name),
     description |-> item.description_fr,
     type        |-> item.type,
     system      |-> item.system,
     items       |-> item.items]

\* unique_key = f"{pack_name}:{entry_id}"
UniqueKey(pack_name, entry_id) == pack_name \o <<58>> \o entry_id

(***************************************************************************)
(* Annotation parser and identifier resolver (pf2_extract_v6.py:           *)
(* parse_htm_file)                                                         *)
(*                                                                         *)
(* A file stem is a sequence of code points.  The content of a file is a   *)
(* sequence of lines, a line a sequence of words without blanks around     *)
(* them; a label ("Name:", "Nom:", "ID:") is the first word of its line,   *)
(* and a marker, the items header or a rule of dashes is a line of its     *)
(* own.                                                                    *)
(***************************************************************************)

\* str.split(sep): the segments between the separators, empty ones kept.
RECURSIVE Split(_, _)
Split(s, sep) ==
    IF \A i \in 1..Len(s) : s[i] # sep THEN <<s>>
    ELSE LET k == CHOOSE i \in 1..Len(s) :
                      s[i] = sep /\ \A j \in 1..(i - 1) : s[j] # sep
         IN  <<SubSeq(s, 1, k - 1)>> \o Split(SubSeq(s, k + 1, Len(s)), sep)

\* The shape test accepting any segment of 16 characters.
looks_like_uuid_any(s) == Len(s) = 16

\* looks_like_uuid: len(s) == 16 and s.isalnum()
looks_like_uuid(s) == Len(s) = 16 /\ IsAlnum(s)

\* The identifier taken from the stem: the last '-' segment when there
\* are at least two and it looks like an identifier, the stem when it has
\* one segment (which then is the stem), the full stem otherwise.
ResolveUuid(file_stem) ==
    LET parts == Split(file_stem, 45)
    IN  IF Len(parts) >= 2 /\ looks_like_uuid(parts[Len(parts)])
        THEN parts[Len(parts)]
        ELSE IF Len(parts) = 1 /\ looks_like_uuid(parts[1])
        THEN parts[1]
        ELSE file_stem

\* The words of the file: markers, header and rule.
DescEnMarker == "-- Desc (en) --"

DescFrMarker == "-- Desc (fr) --"

EndDescMarker == "-- End desc ---"

ItemsHeader == "------ Items ------"

Rule == "------------------------------------------------------------"

\* The words of some lines, in reading order.
RECURSIVE Flatten(_)
Flatten(lines) ==
    IF lines = <<>> THEN <<>> ELSE Head(lines) \o Flatten(Tail(lines))

\* re.search(r'^LABEL\s*(.+)$', text, re.MULTILINE).group(1).strip(), <<>>
\* when there is no match: at the first line that starts with the label,
\* the rest of that line; when the rest is empty \s* runs over the line
\* ends and the group is the whole next line that is not blank.
RECURSIVE LabelValue(_, _)
LabelValue(lines, label) ==
    IF lines = <<>> THEN <<>>
    ELSE IF Head(lines) # <<>> /\ Head(Head(lines)) = label
    THEN IF Tail(Head(lines)) # <<>> THEN Tail(Head(lines))
         ELSE LET rest == SelectSeq(Tail(lines), LAMBDA l : l # <<>>)
              IN  IF rest = <<>> THEN <<>> ELSE Head(rest)
    ELSE LabelValue(Tail(lines), label)

\* The index of the first word at or after from that is in marks, 0 when
\* there is none.
FirstMark(words, from, marks) ==
    LET at == {i \in from..Len(words) : words[i] \in marks}
    IN  IF at = {} THEN 0 ELSE CHOOSE i \in at : \A j \in at : i =< j

\* re.search(r'START\s*(.+?)(?=STOP|...|$)', text, re.DOTALL).group(1)
\* .strip(), <<>> when there is no match: the words after the first start
\* marker up to the next stop marker or the end.  The group takes at least
\* one character, so a stop marker that follows the start marker at once
\* is part of the group.
Capture(words, start, stops) ==
    LET s == FirstMark(words, 1, {start})
        e == FirstMark(words, s + 2, stops)
    IN  IF s = 0 THEN <<>>
        ELSE SubSeq(words, s + 1, IF e = 0 THEN Len(words) ELSE e - 1)

\* re.search(r'----- Items -+\s*(.+?)(?=-{10,}|$)', content, re.DOTALL):
\* the lines after the items header, up to the next rule of dashes.
ItemsSection(lines) ==
    LET h == {i \in 1..Len(lines) : lines[i] = <<ItemsHeader>>}
        s == IF h = {} THEN 0 ELSE CHOOSE i \in h : \A j \in h : i =< j
        r == {i \in (s + 1)..Len(lines) : lines[i] = <<Rule>>}
        e == IF r = {} THEN Len(lines) + 1
             ELSE CHOOSE i \in r : \A j \in r : i =< j
    IN  IF s = 0 THEN <<>> ELSE SubSeq(lines, s + 1, e - 1)

\* re.split(r'(?=^ID:\s)', items_content, flags=re.MULTILINE): a new block
\* starts at every line whose first word is "ID:".
RECURSIVE ItemBlocks(_, _)
ItemBlocks(lines, block) ==
    IF lines = <<>> THEN <<block>>
    ELSE IF Head(lines) # <<>> /\ Head(Head(lines)) = "ID:"
         THEN <<block>> \o ItemBlocks(Tail(lines), <<Head(lines)>>)
         ELSE ItemBlocks(Tail(lines), Append(block, Head(lines)))

\* The ItemTranslation of one block (a block holding an ID: line).
BlockItem(block) ==
    LET item_name_en == LabelValue(block, "Name:")
        item_name_fr == LabelValue(block, "Nom:")
    IN  [id      |-> LabelValue(block, "ID:"),
         name_en |-> item_name_en,
         name_fr |-> IF item_name_fr # <<>> THEN item_name_fr
                     ELSE item_name_en,
         desc_en |-> Capture(Flatten(block), DescEnMarker,
                             {DescFrMarker, EndDescMarker}),
         desc_fr |-> Capture(Flatten(block), DescFrMarker, {EndDescMarker})]

\* The loop over the blocks: items[item_id] = ItemTranslation(...) for every
\* block with an ID: line, a later block of an identifier replacing an
\* earlier one.
RECURSIVE ParseItems(_, _)
ParseItems(blocks, items) ==
    IF blocks = <<>> THEN items
    ELSE LET it == BlockItem(Head(blocks))
         IN  ParseItems(Tail(blocks),
                        IF it.id = <<>> THEN items
                        ELSE [k \in DOMAIN items \cup {it.id} |->
                                 IF k = it.id THEN it ELSE items[k]])

\* The record built without either fallback.
MakeTranslationNoFallback(uuid, pack, name_en, name_fr, desc_en, desc_fr, status, items) ==
    [uuid |-> uuid, pack |-> pack, name_en |-> name_en, name_fr |-> name_fr,
     desc_en |-> desc_en, desc_fr |-> desc_fr, status |-> status,
     items |-> items]

\* return Translation(..., name_fr=name_fr or name_en, ...,
\* desc_fr=desc_fr or desc_en, ...)
MakeTranslation(uuid, pack, name_en, name_fr, desc_en, desc_fr, status, items) ==
    [uuid |-> uuid, pack |-> pack, name_en |-> name_en,
     name_fr |-> Or(name_fr, name_en),
     desc_en |-> desc_en, desc_fr |-> Or(desc_fr, desc_en),
     status |-> status, items |-> items]

\* parse_htm_file on a readable file: None when neither name was found.
parse_htm_file(file_stem, lines, pack_name) ==
    LET name_en == LabelValue(lines, "Name:")
        name_fr == LabelValue(lines, "Nom:")
        status  == LabelValue(lines, "État:")
        desc_en == Capture(Flatten(lines), DescEnMarker,
                           {DescFrMarker, EndDescMarker})
        desc_fr == Capture(Flatten(lines), DescFrMarker, {EndDescMarker})
        items   == ParseItems(ItemBlocks(ItemsSection(lines), <<>>), <<>>)
    IN  IF name_en = <<>> /\ name_fr = <<>> THEN None
        ELSE MakeTranslation(ResolveUuid(file_stem), pack_name, name_en,
                             name_fr, desc_en, desc_fr, status, items)

(***************************************************************************)
(* Lexicon extractors (pf2_extract_v6.py: extract_traits,                  *)
(* extract_npc_abilities, extract_conditions, extract_materials,           *)
(* extract_glossary)                                                       *)
(***************************************************************************)

\* A language file is the sequence of its string-valued items in file
\* order: [path, key, value], path naming the dictionary that holds the key
\* ("PF2E", "Glossary" for PF2E.NPC.Abilities.Glossary, "Skill", "Damage"
\* for PF2E.Damage.IWR.Type, "Area" for PF2E.Area.Shape, "Duration").

\* Key fragments the extractors test for.
KTrait == <<84, 114, 97, 105, 116>>  \* "Trait"

KTraitDescription == <<84, 114, 97, 105, 116, 68, 101, 115, 99, 114, 105, 112, 116, 105, 111, 110>>  \* "TraitDescription"

KAttackEffect == <<65, 116, 116, 97, 99, 107, 69, 102, 102, 101, 99, 116>>  \* "AttackEffect"

KConditionType == <<67, 111, 110, 100, 105, 116, 105, 111, 110, 84, 121, 112, 101>>  \* "ConditionType"

KPreciousMaterial == <<80, 114, 101, 99, 105, 111, 117, 115, 77, 97, 116, 101, 114, 105, 97, 108>>  \* "PreciousMaterial"

KDescription == <<68, 101, 115, 99, 114, 105, 112, 116, 105, 111, 110>>  \* "Description"

KGrade == <<71, 114, 97, 100, 101>>  \* "Grade"

KLabel == <<76, 97, 98, 101, 108>>  \* "Label"

KHeader == <<72, 101, 97, 100, 101, 114>>  \* "Header"

KTitle == <<84, 105, 116, 108, 101>>  \* "Title"

KSaves == <<83, 97, 118, 101, 115>>  \* "Saves"

\* str.upper() on one code point of Latin-1.
PyUpperChar(c) ==
    IF c \in 97..122 \/ (c \in 224..254 /\ c # 247) THEN c - 32 ELSE c

\* str.capitalize(): the first character upper-cased, the rest lower-cased.
Capitalize(s) ==
    [i \in 1..Len(s) |-> IF i = 1 THEN PyUpperChar(s[1]) ELSE PyLowerChar(s[i])]

\* dict.get(key, default)
GetOr(map, key, default) == IF key \in DOMAIN map THEN map[key] ELSE default

\* The items of one dictionary of a language file, in file order.
ItemsAt(lang, path) == SelectSeq(lang.items, LAMBDA it : it.path = path)

\* The keys of a dict.
Keys(items) == {items[i].key : i \in 1..Len(items)}

\* The dictionary  {key: value}  of the items.
AsDict(items) ==
    [k \in Keys(items) |->
        items[CHOOSE i \in 1..Len(items) : items[i].key = k].value]

\* d[key[len(prefix):].lower()] = value  for every item, in file order: a
\* later item overwrites an earlier one with the same lowered key.
LowerDict(items, prefix) ==
    LET low(i) == PyLower(SubSeq(items[i].key, Len(prefix) + 1,
                                 Len(items[i].key)))
    IN  [k \in {low(i) : i \in 1..Len(items)} |->
            LET last == CHOOSE i \in 1..Len(items) :
                            /\ low(i) = k
                            /\ \A j \in (i + 1)..Len(items) : low(j) # k
            IN  [value |-> items[last].value,
                 name  |-> SubSeq(items[last].key, Len(prefix) + 1,
                                  Len(items[last].key))]]

\* The values of a LowerDict.
ValuesOf(d) == [k \in DOMAIN d |-> d[k].value]

\* for key in a_set: the elements in the order the loop visits them.
RECURSIVE SetToSeq(_)
SetToSeq(S) ==
    IF S = {} THEN <<>>
    ELSE LET x == CHOOSE y \in S : TRUE
         IN  <<x>> \o SetToSeq(S \ {x})

\* An entry of the lexicon.
LexEntry(id, pack, category, translated, name_fr, name_en, desc_fr, desc_en) ==
    [_id            |-> id,
     _pack          |-> pack,
     _pack_type     |-> category,
     _translated    |-> translated,
     name_fr        |-> Or(name_fr, name_en),
     name_en        |-> Or(name_en, name_fr),
     type           |-> category,
     description_fr |-> desc_fr,
     description    |-> desc_en]

\* Both language files were found.
BothFiles(fr, en) == fr.exists /\ en.exists

PackTraits == <<116, 114, 97, 105, 116, 115>>  \* "traits"

PackNpcAbilities == <<110, 112, 99, 45, 97, 98, 105, 108, 105, 116, 105, 101, 115>>  \* "npc-abilities"

PackConditions == <<99, 111, 110, 100, 105, 116, 105, 111, 110, 115>>  \* "conditions"

PackMaterials == <<109, 97, 116, 101, 114, 105, 97, 108, 115>>  \* "materials"

PackGlossaire == <<103, 108, 111, 115, 115, 97, 105, 114, 101>>  \* "glossaire"

IdNpcAbility == <<110, 112, 99, 45, 97, 98, 105, 108, 105, 116, 121, 45>>  \* "npc-ability-"

IdCondition == <<99, 111, 110, 100, 105, 116, 105, 111, 110, 45>>  \* "condition-"

IdMaterial == <<109, 97, 116, 101, 114, 105, 97, 108, 45>>  \* "material-"

IdGlossaire == <<103, 108, 111, 115, 115, 97, 105, 114, 101, 45>>  \* "glossaire-"

IdSkill == <<103, 108, 111, 115, 115, 97, 105, 114, 101, 45, 99, 111, 109, 112, 233, 116, 101, 110, 99, 101, 45>>  \* "glossaire-compétence-"

IdDamage == <<103, 108, 111, 115, 115, 97, 105, 114, 101, 45, 100, 233, 103, 226, 116, 45>>  \* "glossaire-dégât-"

IdArea == <<103, 108, 111, 115, 115, 97, 105, 114, 101, 45, 122, 111, 110, 101, 45>>  \* "glossaire-zone-"

IdDuration == <<103, 108, 111, 115, 115, 97, 105, 114, 101, 45, 100, 117, 114, 233, 101, 45>>  \* "glossaire-durée-"

IdSave == <<103, 108, 111, 115, 115, 97, 105, 114, 101, 45, 115, 97, 117, 118, 101, 103, 97, 114, 100, 101, 45>>  \* "glossaire-sauvegarde-"

\* extract_traits
extract_traits(fr, en) ==
    IF ~BothFiles(fr, en) THEN <<>>
    ELSE
    LET descs(lang)  == SelectSeq(ItemsAt(lang, "PF2E"), LAMBDA it :
                            StartsWith(it.key, KTraitDescription))
        labels(lang) == SelectSeq(ItemsAt(lang, "PF2E"), LAMBDA it :
                            /\ StartsWith(it.key, KTrait)
                            /\ ~StartsWith(it.key, KTraitDescription))
        fr_traits == LowerDict(descs(fr), KTraitDescription)
        en_traits == LowerDict(descs(en), KTraitDescription)
        fr_labels == ValuesOf(LowerDict(labels(fr), KTrait))
        en_labels == ValuesOf(LowerDict(labels(en), KTrait))
        keys == SetToSeq(DOMAIN fr_traits \cup DOMAIN en_traits)
        one(k) ==
            LET fr_name == IF k \in DOMAIN fr_traits THEN fr_traits[k].name
                           ELSE Capitalize(k)
                en_name == IF k \in DOMAIN en_traits THEN en_traits[k].name
                           ELSE Capitalize(k)
                desc_fr == IF k \in DOMAIN fr_traits THEN fr_traits[k].value
                           ELSE <<>>
                desc_en == IF k \in DOMAIN en_traits THEN en_traits[k].value
                           ELSE <<>>
            IN  LexEntry(k, PackTraits, "trait", desc_fr # <<>>,
                         GetOr(fr_labels, k, fr_name),
                         GetOr(en_labels, k, en_name),
                         desc_fr, Or(desc_en, desc_fr))
    IN  [i \in 1..Len(keys) |-> one(keys[i])]

\* extract_npc_abilities
extract_npc_abilities(fr, en) ==
    IF ~BothFiles(fr, en) THEN <<>>
    ELSE
    LET fr_glossary == AsDict(ItemsAt(fr, "Glossary"))
        en_glossary == AsDict(ItemsAt(en, "Glossary"))
        effects(lang) == SelectSeq(ItemsAt(lang, "PF2E"), LAMBDA it :
                             StartsWith(it.key, KAttackEffect))
        fr_attack_effects == ValuesOf(LowerDict(effects(fr), KAttackEffect))
        en_attack_effects == ValuesOf(LowerDict(effects(en), KAttackEffect))
        keys == SetToSeq(DOMAIN fr_glossary \cup DOMAIN en_glossary)
        one(key) ==
            LET desc_fr == GetOr(fr_glossary, key, <<>>)
                desc_en == GetOr(en_glossary, key, <<>>)
            IN  LexEntry(IdNpcAbility \o PyLower(key), PackNpcAbilities,
                         "capacité", desc_fr # <<>>,
                         GetOr(fr_attack_effects, PyLower(key), key),
                         GetOr(en_attack_effects, PyLower(key), key),
                         desc_fr, Or(desc_en, desc_fr))
    IN  [i \in 1..Len(keys) |-> one(keys[i])]

\* extract_conditions
extract_conditions(fr, en) ==
    IF ~BothFiles(fr, en) THEN <<>>
    ELSE
    LET conds(lang) == SelectSeq(ItemsAt(lang, "PF2E"), LAMBDA it :
                           StartsWith(it.key, KConditionType))
        fr_conditions == ValuesOf(LowerDict(conds(fr), KConditionType))
        en_conditions == ValuesOf(LowerDict(conds(en), KConditionType))
        keys == SetToSeq(DOMAIN fr_conditions \cup DOMAIN en_conditions)
        one(key) ==
            LET name_fr == GetOr(fr_conditions, key, <<>>)
                name_en == GetOr(en_conditions, key, <<>>)
            IN  LexEntry(IdCondition \o key, PackConditions, "état",
                         name_fr # <<>>, name_fr, name_en, <<>>, <<>>)
    IN  [i \in 1..Len(keys) |-> one(keys[i])]

\* The material key of a description item:
\* k[len("PreciousMaterial"):-len("Description")]
MaterialDescKey(k) ==
    SubSeq(k, Len(KPreciousMaterial) + 1, Len(k) - Len(KDescription))

\* d[mat_key.lower()] = value  over the description items, in file order.
MaterialDescs(items) ==
    LET low(i) == PyLower(MaterialDescKey(items[i].key))
    IN  [k \in {low(i) : i \in 1..Len(items)} |->
            items[CHOOSE i \in 1..Len(items) :
                     /\ low(i) = k
                     /\ \A j \in (i + 1)..Len(items) : low(j) # k].value]

\* extract_materials
extract_materials(fr, en) ==
    IF ~BothFiles(fr, en) THEN <<>>
    ELSE
    LET mats(lang)  == SelectSeq(ItemsAt(lang, "PF2E"), LAMBDA it :
                           StartsWith(it.key, KPreciousMaterial))
        descs(lang) == SelectSeq(mats(lang), LAMBDA it :
                           Contains(it.key, KDescription))
        names(lang) == SelectSeq(mats(lang), LAMBDA it :
                           /\ ~Contains(it.key, KDescription)
                           /\ ~Contains(it.key, KGrade)
                           /\ ~Contains(it.key, KLabel))
        fr_names == ValuesOf(LowerDict(names(fr), KPreciousMaterial))
        en_names == ValuesOf(LowerDict(names(en), KPreciousMaterial))
        fr_descs == MaterialDescs(descs(fr))
        en_descs == MaterialDescs(descs(en))
        keys == SetToSeq(DOMAIN fr_descs \cup DOMAIN en_descs)
        one(key) ==
            LET desc_fr == GetOr(fr_descs, key, <<>>)
                desc_en == GetOr(en_descs, key, <<>>)
            IN  LexEntry(IdMaterial \o key, PackMaterials, "matériau",
                         desc_fr # <<>>,
                         GetOr(fr_names, key, Capitalize(key)),
                         GetOr(en_names, key, Capitalize(key)),
                         desc_fr, Or(desc_en, desc_fr))
    IN  [i \in 1..Len(keys) |-> one(keys[i])]

\* categories of extract_glossary: key prefix and identifier prefix.
GlossaryCategories ==
    <<
      \* "ActorSize": "taille"
      [prefix |-> <<65, 99, 116, 111, 114, 83, 105, 122, 101>>,
       id_prefix |-> <<116, 97, 105, 108, 108, 101>>],
      \* "ProficiencyLevel": "maîtrise"
      [prefix |-> <<80, 114, 111, 102, 105, 99, 105, 101, 110, 99, 121, 76, 101, 118, 101, 108>>,
       id_prefix |-> <<109, 97, 238, 116, 114, 105, 115, 101>>],
      \* "DCAdjustment": "dd"
      [prefix |-> <<68, 67, 65, 100, 106, 117, 115, 116, 109, 101, 110, 116>>,
       id_prefix |-> <<100, 100>>],
      \* "ActionType": "type-action"
      [prefix |-> <<65, 99, 116, 105, 111, 110, 84, 121, 112, 101>>,
       id_prefix |-> <<116, 121, 112, 101, 45, 97, 99, 116, 105, 111, 110>>],
      \* "PreparationType": "préparation"
      [prefix |-> <<80, 114, 101, 112, 97, 114, 97, 116, 105, 111, 110, 84, 121, 112, 101>>,
       id_prefix |-> <<112, 114, 233, 112, 97, 114, 97, 116, 105, 111, 110>>],
      \* "WeaponGroup": "groupe-arme"
      [prefix |-> <<87, 101, 97, 112, 111, 110, 71, 114, 111, 117, 112>>,
       id_prefix |-> <<103, 114, 111, 117, 112, 101, 45, 97, 114, 109, 101>>],
      \* "ArmorGroup": "groupe-armure"
      [prefix |-> <<65, 114, 109, 111, 114, 71, 114, 111, 117, 112>>,
       id_prefix |-> <<103, 114, 111, 117, 112, 101, 45, 97, 114, 109, 117, 114, 101>>],
      \* "WeaponType": "type-arme"
      [prefix |-> <<87, 101, 97, 112, 111, 110, 84, 121, 112, 101>>,
       id_prefix |-> <<116, 121, 112, 101, 45, 97, 114, 109, 101>>],
      \* "ArmorType": "type-armure"
      [prefix |-> <<65, 114, 109, 111, 114, 84, 121, 112, 101>>,
       id_prefix |-> <<116, 121, 112, 101, 45, 97, 114, 109, 117, 114, 101>>],
      \* "Currency": "devise"
      [prefix |-> <<67, 117, 114, 114, 101, 110, 99, 121>>,
       id_prefix |-> <<100, 101, 118, 105, 115, 101>>] >>

\* The entries of one category of the loop over categories.
GlossaryCategory(fr, en, cat) ==
    LET kept(lang) == SelectSeq(ItemsAt(lang, "PF2E"), LAMBDA it :
                          /\ StartsWith(it.key, cat.prefix)
                          /\ ~Contains(it.key, KLabel)
                          /\ ~Contains(it.key, KHeader)
                          /\ ~Contains(it.key, KTitle))
        fr_items == AsDict(kept(fr))
        en_items == AsDict(kept(en))
        suffix(key) == SubSeq(key, Len(cat.prefix) + 1, Len(key))
        keys == SelectSeq(SetToSeq(DOMAIN fr_items \cup DOMAIN en_items),
                          LAMBDA key :
                              /\ suffix(key) # <<>>
                              /\ \/ GetOr(fr_items, key, <<>>) # <<>>
                                 \/ GetOr(en_items, key, <<>>) # <<>>)
        one(key) ==
            LET name_fr == GetOr(fr_items, key, <<>>)
                name_en == GetOr(en_items, key, <<>>)
            IN  LexEntry(IdGlossaire \o cat.id_prefix \o <<45>>
                            \o PyLower(suffix(key)),
                         PackGlossaire, "glossaire", name_fr # <<>>,
                         name_fr, name_en, <<>>, <<>>)
    IN  [i \in 1..Len(keys) |-> one(keys[i])]

RECURSIVE GlossaryCategoriesFrom(_, _, _)
GlossaryCategoriesFrom(fr, en, n) ==
    IF n > Len(GlossaryCategories) THEN <<>>
    ELSE GlossaryCategory(fr, en, GlossaryCategories[n])
            \o GlossaryCategoriesFrom(fr, en, n + 1)

\* The entries of one nested dictionary (Skill, Damage.IWR.Type, Area.Shape,
\* Duration).  Skill and Duration emit every key whose two values are
\* strings; Damage and Area emit a key when one of its values is not empty.
GlossaryNested(fr, en, path, id_prefix, non_empty) ==
    LET fr_vals == AsDict(ItemsAt(fr, path))
        en_vals == AsDict(ItemsAt(en, path))
        keys == SelectSeq(SetToSeq(DOMAIN fr_vals \cup DOMAIN en_vals),
                          LAMBDA key :
                              non_empty =>
                                  \/ GetOr(fr_vals, key, <<>>) # <<>>
                                  \/ GetOr(en_vals, key, <<>>) # <<>>)
        one(key) ==
            LET fr_val == GetOr(fr_vals, key, <<>>)
                en_val == GetOr(en_vals, key, <<>>)
            IN  LexEntry(id_prefix \o PyLower(key), PackGlossaire,
                         "glossaire", fr_val # <<>>, fr_val, en_val,
                         <<>>, <<>>)
    IN  [i \in 1..Len(keys) |-> one(keys[i])]

\* saves_mapping: key and default French name.
SavesMapping ==
    <<
      \* "SavesFortitude": "Vigueur"
      [key |-> <<83, 97, 118, 101, 115, 70, 111, 114, 116, 105, 116, 117, 100, 101>>,
       default_fr |-> <<86, 105, 103, 117, 101, 117, 114>>],
      \* "SavesReflex": "Réflexes"
      [key |-> <<83, 97, 118, 101, 115, 82, 101, 102, 108, 101, 120>>,
       default_fr |-> <<82, 233, 102, 108, 101, 120, 101, 115>>],
      \* "SavesWill": "Volonté"
      [key |-> <<83, 97, 118, 101, 115, 87, 105, 108, 108>>,
       default_fr |-> <<86, 111, 108, 111, 110, 116, 233>>] >>

\* The entries of the saving throws.
GlossarySaves(fr, en) ==
    LET fr_pf2e == AsDict(ItemsAt(fr, "PF2E"))
        en_pf2e == AsDict(ItemsAt(en, "PF2E"))
        kept == SelectSeq(SavesMapping, LAMBDA m :
                    \/ GetOr(fr_pf2e, m.key, <<>>) # <<>>
                    \/ GetOr(en_pf2e, m.key, <<>>) # <<>>)
        one(m) ==
            LET fr_val == GetOr(fr_pf2e, m.key, <<>>)
                en_val == GetOr(en_pf2e, m.key, <<>>)
                bare   == Remove(m.key, KSaves)
            IN  [_id            |-> IdSave \o PyLower(bare),
                 _pack          |-> PackGlossaire,
                 _pack_type     |-> "glossaire",
                 _translated    |-> fr_val # <<>>,
                 name_fr        |-> Or(fr_val, m.default_fr),
                 name_en        |-> Or(en_val, bare),
                 type           |-> "glossaire",
                 description_fr |-> <<>>,
                 description    |-> <<>>]
    IN  [i \in 1..Len(kept) |-> one(kept[i])]

\* extract_glossary
extract_glossary(fr, en) ==
    IF ~BothFiles(fr, en) THEN <<>>
    ELSE GlossaryCategoriesFrom(fr, en, 1)
            \o GlossaryNested(fr, en, "Skill", IdSkill, FALSE)
            \o GlossaryNested(fr, en, "Damage", IdDamage, TRUE)
            \o GlossaryNested(fr, en, "Area", IdArea, TRUE)
            \o GlossaryNested(fr, en, "Duration", IdDuration, FALSE)
            \o GlossarySaves(fr, en)

(***************************************************************************)
(* The pipeline (pf2_extract_v6.py: download_repos, main)                  *)
(***************************************************************************)

\* REPOS
REPOS == <<"pf2e", "pf2-fr">>

\* The extractors in the order main calls them, each with the repositories
\* under RAW_DIR it reads; an extractor that misses one returns no entry.
Extractors ==
    << [name |-> "foundry",    needs |-> {"pf2e"}],
       [name |-> "journals",   needs |-> {"pf2-fr"}],
       [name |-> "traits",     needs |-> {"pf2e", "pf2-fr"}],
       [name |-> "abilities",  needs |-> {"pf2e", "pf2-fr"}],
       [name |-> "conditions", needs |-> {"pf2e", "pf2-fr"}],
       [name |-> "materials",  needs |-> {"pf2e", "pf2-fr"}],
       [name |-> "glossary",   needs |-> {"pf2e", "pf2-fr"}] >>

\* The gate taken as  all(results.values())  over a non-empty result.
AllFetched(results) ==
    DOMAIN results # {} /\ \A r \in DOMAIN results : results[r]

\* any(results.values())
AnyFetched(results) == \E r \in DOMAIN results : results[r]

\* len(entries) once every extractor has been called.
RECURSIVE TotalFrom(_, _)
TotalFrom(yields, n) ==
    IF n > Len(Extractors) THEN 0
    ELSE yields[Extractors[n].name] + TotalFrom(yields, n + 1)

Total(yields) == TotalFrom(yields, 1)

(***************************************************************************)
(* Bounds and input sets                                                   *)
(***************************************************************************)

\* Longest entry stream handed to create_database in the build runs.
MaxStream == 3

\* Most entries of the catalogue below in one searched corpus.
MaxRows == 3

\* Most filler entries (same name, different identifiers) in one corpus.
MaxFill == 4

\* A result limit small enough for the cut to drop admitted entries.
SmallLimit == 2

\* limit: int = 25
DefaultLimit == 25

\* An eight-character identifier, with a '-' inside when n is even.
IdOf(n) ==
    <<97, 97, 97, IF n % 2 = 0 THEN 45 ELSE 97, 97, 97,
      48 + (n \div 10), 48 + (n % 10)>>

\* An entry as the extractors emit it (the fields the builder and the
\* search read).
Entry(n, pack, category, tag, fr, en, traits) ==
    [_id         |-> IdOf(n),
     _pack       |-> pack,
     _pack_type  |-> category,
     _translated |-> (fr # en),
     name_fr     |-> fr,
     name_en     |-> en,
     type        |-> tag,
     traits      |-> traits]

\* Catalogue of entries.  Names (code points):
\*   Lo, Lox, xLo            exact / prefix / substring of "lo"
\*   D e-acute, De           accent pair
\*   a + l%, z + %l          names holding a LIKE wildcard
\*   de + xD E-acute         a capital accented letter SQLite does not fold
\*   d e-acute x             prefix of "d e-acute"
\* Packs: bs, sp, tr.  Trait: Fi.
Catalogue ==
    << Entry(1, <<98, 115>>, "créature", "npc",
             <<76, 111>>, <<76, 111>>, << <<70, 105>> >>),
       Entry(2, <<98, 115>>, "créature", "npc",
             <<76, 111, 120>>, <<76, 111, 120>>, <<>>),
       Entry(1, <<115, 112>>, "sort", "spell",
             <<120, 76, 111>>, <<120, 76, 111>>, << <<70, 105>> >>),
       Entry(4, <<115, 112>>, "sort", "spell",
             <<68, 233>>, <<68, 233>>, <<>>),
       Entry(5, <<116, 114>>, "trait", "trait",
             <<68, 101>>, <<68, 101>>, << <<70, 105>> >>),
       Entry(6, <<115, 112>>, "sort", "spell",
             <<97>>, <<108, 37>>, <<>>),
       Entry(7, <<115, 112>>, "sort", "spell",
             <<122>>, <<37, 108>>, <<>>),
       Entry(8, <<116, 114>>, "trait", "trait",
             <<100, 101>>, <<120, 68, 201>>, <<>>),
       Entry(9, <<98, 115>>, "créature", "npc",
             <<100, 233, 120>>, <<100, 233, 120>>, << <<70, 105>> >>),
       Entry(10, <<98, 115>>, "créature", "npc",
             <<76, 111, 120>>, <<76, 111>>, <<>>) >>

\* The k-th filler: "Dex", a raw prefix match of "de".
Filler(k) ==
    Entry(20 + k, <<98, 115>>, "créature", "npc",
          <<68, 101, 120>>, <<68, 101, 120>>, <<>>)

\* Streams for the build runs: entries sharing a (pack, id) pair under
\* different names (one of them translated), and the same id in another
\* pack.
BuildEntries ==
    { Catalogue[1],
      [Catalogue[10] EXCEPT !._id = IdOf(1)],
      Catalogue[3],
      [Catalogue[4] EXCEPT !._id = IdOf(1), !._pack = <<98, 115>>] }

RECURSIVE SeqsUpTo(_, _)
SeqsUpTo(S, n) ==
    IF n = 0 THEN {<<>>}
    ELSE LET shorter == SeqsUpTo(S, n - 1)
         IN  shorter \cup {Append(q, x) : q \in shorter, x \in S}

Streams == SeqsUpTo(BuildEntries, MaxStream) \ {<<>>}

\* The corpus streams of the search runs: f fillers, then the catalogue
\* entries whose index is in S, in catalogue order.
CorpusEntries(f, S) ==
    LET idx == SelectSeq([k \in 1..Len(Catalogue) |-> k], LAMBDA k : k \in S)
    IN  [k \in 1..f |-> Filler(k)] \o [k \in 1..Len(idx) |-> Catalogue[idx[k]]]

SmallSubsets ==
    {S \in SUBSET (1..Len(Catalogue)) : Cardinality(S) =< MaxRows}

\* Query texts: lo, de, d e-acute, %, empty, blank, two identifiers.
Queries ==
    { <<108, 111>>, <<100, 101>>, <<100, 233>>, <<37>>, <<>>, <<32>>,
      IdOf(1), IdOf(4) }

\* Query texts of the filtered runs: lo, de, d e-acute, two identifiers.
FilterQueries ==
    { <<108, 111>>, <<100, 101>>, <<100, 233>>, IdOf(1), IdOf(4) }

Limits == {SmallLimit, DefaultLimit}

\* Category filters: none, two categories of the catalogue, an unknown one.
TypeFilters == {"", "créature", "trait", "zzz"}

\* Pack filters: none, B (packs hold it in the other case), _ (a LIKE
\* wildcard).
PackFilters == {<<>>, <<66>>, <<95>>}

\* Trait filters: none, fi.
TraitFilters == {<<>>, <<102, 105>>}

\* An entry with its level: under system.level, under system.details.level,
\* under both or under neither.
Levelled(entry, level, details_level) ==
    [level |-> level, details_level |-> details_level] @@ entry

\* The entries of the trait listings.  Trait "Fire" unless said:
\*   1  creature Loup, details level 5      2  spell Feu, level 1
\*   3  spell Arc, level 3 (trait "fire")   4  creature Rat, no level
\*   5  spell Feu, level 0, another id      6  spell Gel, level 2, trait "Cold"
\*   7  creature Ours, level 2 and details level 4
Fire == <<70, 105, 114, 101>>

LevelCatalogue ==
    << Levelled(Entry(31, <<98, 115>>, "créature", "npc",
                      <<76, 111, 117, 112>>, <<87, 111, 108, 102>>,
                      <<Fire>>), <<>>, <<5>>),
       Levelled(Entry(32, <<115, 112>>, "sort", "spell",
                      <<70, 101, 117>>, <<70, 105, 114, 101>>,
                      <<Fire>>), <<1>>, <<>>),
       Levelled(Entry(33, <<115, 112>>, "sort", "spell",
                      <<65, 114, 99>>, <<65, 114, 99>>,
                      << <<102, 105, 114, 101>> >>), <<3>>, <<>>),
       Levelled(Entry(34, <<98, 115>>, "créature", "npc",
                      <<82, 97, 116>>, <<82, 97, 116>>,
                      <<Fire>>), <<>>, <<>>),
       Levelled(Entry(35, <<115, 112>>, "sort", "spell",
                      <<70, 101, 117>>, <<70, 105, 114, 101>>,
                      <<Fire>>), <<0>>, <<>>),
       Levelled(Entry(36, <<115, 112>>, "sort", "spell",
                      <<71, 101, 108>>, <<73, 99, 101>>,
                      << <<67, 111, 108, 100>> >>), <<2>>, <<>>),
       Levelled(Entry(37, <<98, 115>>, "créature", "npc",
                      <<79, 117, 114, 115>>, <<66, 101, 97, 114>>,
                      <<Fire>>), <<2>>, <<4>>) >>

\* The corpus of the levelled entries whose index is in S, in catalogue
\* order.
LevelEntries(S) ==
    LET idx == SelectSeq([k \in 1..Len(LevelCatalogue) |-> k],
                         LAMBDA k : k \in S)
    IN  [k \in 1..Len(idx) |-> LevelCatalogue[idx[k]]]

\* Traits asked for: fir, FIRE, cold, and one no entry has.
ListTraits == {<<102, 105, 114>>, <<70, 73, 82, 69>>, <<99, 111, 108, 100>>,
               <<122, 122>>}

\* Most record files in one extraction run.
MaxFiles == 2

\* Collection names: "classes", "spells-core", "Spells-SRD.json", "misc",
\* "x-srdeities" (the fragment "deities" overlaps the removed "-srd").
PkClasses == <<99, 108, 97, 115, 115, 101, 115>>

PkSpellsCore == <<115, 112, 101, 108, 108, 115, 45, 99, 111, 114, 101>>

PkSpellsSrd == <<83, 112, 101, 108, 108, 115, 45, 83, 82, 68, 46, 106, 115, 111, 110>>

PkMisc == <<109, 105, 115, 99>>

PkSrDeities == <<120, 45, 115, 114, 100, 101, 105, 116, 105, 101, 115>>

\* The attribute tree with the given keys; "attributes" holds the given
\* keys below it.
System(keys, attrs) ==
    [k \in keys |-> IF k = "attributes" THEN attrs ELSE {}]

\* A mechanical record file of a collection.
File(pack, n, name, tag, system, items) ==
    [pack  |-> pack,
     valid |-> TRUE,
     item  |-> [_id    |-> IF n = 0 THEN <<>> ELSE IdOf(n),
                name   |-> name,
                type   |-> tag,
                system |-> system,
                items  |-> items]]

\* Embedded sub-records: two with an identifier, one without.
Jaws == [_id |-> <<"s1">>, name |-> <<"Jaws">>]

Bite == [_id |-> <<"s2">>, name |-> <<"Bite">>]

Claw == [_id |-> <<>>, name |-> <<"Claw">>]

\* The record files of the extraction runs:
\*   1  class "Bard"; its translation points to journal page P1
\*   2  creature "Wolf" with three sub-records
\*   3  spell "Fire Bolt" in spells-core (translated under "spells")
\*   4  untagged record of the collection "classes", same id as 1
\*   5  a second file of key (misc, id 2), under another name
\*   6  archetype whose description names page P0 before page P1
\*   7  a record without _id;  8  a file that is not a JSON object
RecordFiles ==
    << File(PkClasses, 1, <<"Bard">>, "class", System({}, {}), <<>>),
       File(PkMisc, 2, <<"Wolf">>, "npc",
            System({"attributes", "price"}, {"hp"}), <<Jaws, Claw, Bite>>),
       File(PkSpellsCore, 3, <<"Fire", "Bolt">>, "spell",
            System({"traditions"}, {}), <<>>),
       File(PkClasses, 1, <<"Bard">>, "", System({}, {}), <<Jaws>>),
       File(PkMisc, 2, <<"Dire", "Wolf">>, "npc", System({}, {}), <<>>),
       File(PkMisc, 6, <<"Medic">>, "archetype", System({}, {}), <<>>),
       File(PkMisc, 0, <<"Nameless">>, "feat", System({}, {}), <<>>),
       [File(PkMisc, 8, <<>>, "", System({}, {}), <<>>)
            EXCEPT !.valid = FALSE] >>

\* The files of the malformed-record runs:
\*   1  spell "Fire Bolt";  2  creature "Wolf"
\*   3  a file that is not a JSON object;  4  a record without _id
\*   5  an untagged record whose attribute tree is null
\*   6  a spell whose attribute tree is null
MalformedFiles ==
    << File(PkSpellsCore, 3, <<"Fire", "Bolt">>, "spell",
            System({"traditions"}, {}), <<>>),
       File(PkMisc, 2, <<"Wolf">>, "npc", System({"attributes"}, {"hp"}),
            <<Jaws>>),
       [File(PkMisc, 8, <<>>, "", System({}, {}), <<>>)
            EXCEPT !.valid = FALSE],
       File(PkMisc, 0, <<"Nameless">>, "feat", System({}, {}), <<>>),
       File(PkMisc, 5, <<"Broken">>, "", NullSystem, <<>>),
       File(PkSpellsCore, 6, <<"Hollow">>, "spell", NullSystem, <<>>) >>

ItemTranslation(id, name_en, name_fr, desc_fr) ==
    [id |-> id, name_en |-> name_en, name_fr |-> name_fr,
     desc_en |-> <<>>, desc_fr |-> desc_fr]

Translation(n, pack, name_en, name_fr, desc_fr, items) ==
    [uuid |-> IdOf(n), pack |-> pack, name_en |-> name_en,
     name_fr |-> name_fr, desc_en |-> <<>>, desc_fr |-> desc_fr,
     status |-> <<"libre">>, items |-> items]

\* The sub-item map of the translation of "Wolf": s1 with a description
\* and both names, no s2.
WolfItems ==
    [k \in {<<"s1">>} |->
        ItemTranslation(<<"s1">>, <<>>, <<"Machoires">>, <<"Morsure">>)]

\* Translations, by the identifier they are keyed on: the alternatives of
\* each identifier.
TranslationsOf(n) ==
    CASE n = 1 -> {Translation(1, PkClasses, <<"Bard">>, <<"Barde">>,
                               <<"voir", RefP1>>, <<>>),
                   Translation(1, PkClasses, <<>>, <<"Barde">>,
                               <<RefFeat>>, WolfItems)}
      [] n = 2 -> {Translation(2, PkMisc, <<"Wolf">>, <<"Loup">>,
                               <<"Un", "loup">>, WolfItems),
                   Translation(2, PkMisc, <<"Wolf">>, <<"Loup">>,
                               <<>>, <<>>)}
      [] n = 3 -> {Translation(3, <<115, 112, 101, 108, 108, 115>>, <<"Fire", "Bolt">>,
                               <<"Trait", "de", "feu">>, <<"Feu">>, <<>>)}
      [] n = 6 -> {Translation(6, PkMisc, <<"Medic">>, <<"Medecin">>,
                               <<RefP0, RefP1>>, <<>>)}

\* The translation maps: any set of the identifiers, each keyed to one of
\* its translations.
TranslationMaps ==
    LET maps == UNION { [ {IdOf(n) : n \in S} ->
                            UNION {TranslationsOf(n) : n \in S} ]
                        : S \in SUBSET {1, 2, 3, 6} }
    IN  {map \in maps : \A id \in DOMAIN map : map[id].uuid = id}

\* The journal maps: none, or page P1 with its narrative text.
JournalMaps ==
    { <<>>, [p \in {"P1"} |-> <<"Le", "barde", "inspire">>] }

\* Inputs of the classifier runs: type tags inside and outside the type
\* table, every combination of the structural keys, and collection names
\* with and without a known fragment.
ClassifierTags == {"npc", "spell", "feat", "equipment", "class", "", "loot"}

ClassifierSystems ==
    { System(keys, attrs) :
        keys \in SUBSET {"attributes", "traditions", "prerequisites", "price"},
        attrs \in {{}, {"hp"}} }

ClassifierPacks == {PkClasses, PkSpellsCore, PkSpellsSrd, PkMisc, PkSrDeities}

\* Most '-' segments in a file stem.
MaxSegments == 3

\* Stem segments: two identifiers of 16 alphanumeric characters
\* ("sxQZ6yqTn0czJxVd", "BN5Lb6IsQ9Wyu3rL"), 16 characters with a '_',
\* 15 and 17 alphanumeric characters, "common", "03" and the empty segment.
Segments ==
    { <<115, 120, 81, 90, 54, 121, 113, 84, 110, 48, 99, 122, 74, 120, 86, 100>>,
      <<66, 78, 53, 76, 98, 54, 73, 115, 81, 57, 87, 121, 117, 51, 114, 76>>,
      <<115, 120, 81, 90, 54, 121, 113, 84, 110, 48, 99, 122, 74, 120, 95, 100>>,
      <<115, 120, 81, 90, 54, 121, 113, 84, 110, 48, 99, 122, 74, 120, 86>>,
      <<115, 120, 81, 90, 54, 121, 113, 84, 110, 48, 99, 122, 74, 120, 86, 100, 55>>,
      <<99, 111, 109, 109, 111, 110>>, <<48, 51>>, <<>> }

\* '-'.join(parts)
RECURSIVE Join(_)
Join(parts) ==
    IF Len(parts) = 1 THEN parts[1]
    ELSE parts[1] \o <<45>> \o Join(Tail(parts))

\* The stems of the resolver runs: one to MaxSegments segments (a file
\* name has no empty stem).
Stems ==
    {Join(parts) : parts \in SeqsUpTo(Segments, MaxSegments) \ {<<>>}}
        \ {<<>>}

\* The head of an annotation file: any of the Name:, Nom: and status lines,
\* or a Name: line without a value.
HeadLines ==
    { SelectSeq(<< <<"Name:", "Fire", "Bolt">>, <<"Nom:", "Trait", "de", "feu">>,
                   <<"État:", "libre">> >>,
                LAMBDA l : Head(l) \in S) : S \in SUBSET {"Name:", "Nom:", "État:"} }
    \cup { << <<"Name:">>, <<"Nom:", "Trait", "de", "feu">> >>,
           << <<"Name:">>, <<>> >> }

\* The description block: none, one language, both, or an English marker
\* followed at once by the French one.
DescLines ==
    { <<>>,
      << <<DescEnMarker>>, <<"A", "bolt">>, <<EndDescMarker>> >>,
      << <<DescFrMarker>>, <<"Un", "trait">>, <<EndDescMarker>> >>,
      << <<DescEnMarker>>, <<"A", "bolt">>, <<DescFrMarker>>,
         <<"Un", "trait">>, <<EndDescMarker>> >>,
      << <<DescEnMarker>>, <<DescFrMarker>>, <<"Un", "trait">>,
         <<EndDescMarker>> >> }

\* The items section: none, one block with both names, two blocks (one
\* without a French name, one with a description), a block with a French
\* name only and no closing rule, an empty section.
ItemLines ==
    { <<>>,
      << <<ItemsHeader>>, <<"ID:", "s1">>, <<"Name:", "Jaws">>,
         <<"Nom:", "Machoires">>, <<Rule>> >>,
      << <<ItemsHeader>>, <<"ID:", "s1">>, <<"Name:", "Jaws">>,
         <<"ID:", "s2">>, <<"Name:", "Bite">>, <<"Nom:", "Morsure">>,
         <<DescFrMarker>>, <<"Mord">>, <<EndDescMarker>>, <<Rule>> >>,
      << <<ItemsHeader>>, <<"ID:", "s1">>, <<"Nom:", "Griffe">> >>,
      << <<ItemsHeader>>, <<Rule>> >> }

\* The contents of the parser runs.
Contents == {h \o d \o i : h \in HeadLines, d \in DescLines, i \in ItemLines}

\* The language-file items the lexicon runs draw from.  Keys that differ
\* only by letter case (Grab/grab, ActorSizeLg/ActorSizelg), a trait with
\* its label, a material with its name, a skill with an empty value.
LangItem(path, key, value) == [path |-> path, key |-> key, value |-> value]

LangPool ==
    <<
      \* PF2E: "TraitDescriptionFire" -> "brule"
      LangItem("PF2E", <<84, 114, 97, 105, 116, 68, 101, 115, 99, 114, 105, 112, 116, 105, 111, 110, 70, 105, 114, 101>>,
               <<98, 114, 117, 108, 101>>),
      \* PF2E: "TraitFire" -> "Feu"
      LangItem("PF2E", <<84, 114, 97, 105, 116, 70, 105, 114, 101>>,
               <<70, 101, 117>>),
      \* Glossary: "Grab" -> "saisit"
      LangItem("Glossary", <<71, 114, 97, 98>>,
               <<115, 97, 105, 115, 105, 116>>),
      \* Glossary: "grab" -> "tient"
      LangItem("Glossary", <<103, 114, 97, 98>>,
               <<116, 105, 101, 110, 116>>),
      \* PF2E: "AttackEffectGrab" -> "Agrip"
      LangItem("PF2E", <<65, 116, 116, 97, 99, 107, 69, 102, 102, 101, 99, 116, 71, 114, 97, 98>>,
               <<65, 103, 114, 105, 112>>),
      \* PF2E: "ConditionTypeDazed" -> "Hebete"
      LangItem("PF2E", <<67, 111, 110, 100, 105, 116, 105, 111, 110, 84, 121, 112, 101, 68, 97, 122, 101, 100>>,
               <<72, 101, 98, 101, 116, 101>>),
      \* PF2E: "PreciousMaterialIronDescription" -> "dur"
      LangItem("PF2E", <<80, 114, 101, 99, 105, 111, 117, 115, 77, 97, 116, 101, 114, 105, 97, 108, 73, 114, 111, 110, 68, 101, 115, 99, 114, 105, 112, 116, 105, 111, 110>>,
               <<100, 117, 114>>),
      \* PF2E: "PreciousMaterialIron" -> "Fer"
      LangItem("PF2E", <<80, 114, 101, 99, 105, 111, 117, 115, 77, 97, 116, 101, 114, 105, 97, 108, 73, 114, 111, 110>>,
               <<70, 101, 114>>),
      \* PF2E: "ActorSizeLg" -> "Grand"
      LangItem("PF2E", <<65, 99, 116, 111, 114, 83, 105, 122, 101, 76, 103>>,
               <<71, 114, 97, 110, 100>>),
      \* PF2E: "ActorSizelg" -> "grand"
      LangItem("PF2E", <<65, 99, 116, 111, 114, 83, 105, 122, 101, 108, 103>>,
               <<103, 114, 97, 110, 100>>),
      \* Skill: "Acr" -> "Acro"
      LangItem("Skill", <<65, 99, 114>>,
               <<65, 99, 114, 111>>),
      \* Skill: "Occ" -> ""
      LangItem("Skill", <<79, 99, 99>>,
               <<>>),
      \* PF2E: "SavesWill" -> "Vol"
      LangItem("PF2E", <<83, 97, 118, 101, 115, 87, 105, 108, 108>>,
               <<86, 111, 108>>),
      \* Damage: "Fire" -> "Ardent"
      LangItem("Damage", <<70, 105, 114, 101>>,
               <<65, 114, 100, 101, 110, 116>>) >>

\* At most MaxItems items to a drawn language file.
MaxItems == 2

LangFile(items) == [exists |-> TRUE, items |-> items]

MissingFile == [exists |-> FALSE, items |-> <<>>]

\* A JSON object holds a key once.
DistinctKeys(items) ==
    \A i, j \in 1..Len(items) :
        (i # j) => <<items[i].path, items[i].key>> # <<items[j].path, items[j].key>>

PoolItems == {LangPool[i] : i \in 1..Len(LangPool)}

LangFiles ==
    {LangFile(items) : items \in {q \in SeqsUpTo(PoolItems, MaxItems) : DistinctKeys(q)}}

\* The files on the other side of a drawn file.
LangPicks ==
    { MissingFile,
      LangFile(<<>>),
      LangFile(<<LangPool[1], LangPool[2]>>),
      LangFile(<<LangPool[3], LangPool[4]>>),
      LangFile(<<LangPool[9], LangPool[10], LangPool[12]>>),
      LangFile(<<LangPool[7], LangPool[8], LangPool[13]>>) }

\* Most entries one extractor yields in the pipeline runs.
MaxYield == 1

NoYield == [i \in {Extractors[k].name : k \in 1..Len(Extractors)} |-> 0]

(***************************************************************************)
(* State                                                                   *)
(***************************************************************************)

VARIABLES
    disk,      \* the database file at DB_FILE: exists, tables, committed rows
    prev,      \* the file DB_FILE named before the rebuild unlinked it
    bpc,       \* create_database: position
    stream,    \* create_database: the entries argument
    pos,       \* create_database: index of the next entry of the loop
    txn,       \* create_database: rows of the open, uncommitted transaction
    inserted,  \* create_database: the inserted counter
    rpc,       \* search program (main): position
    rfile,     \* search program: the file its connection reads
    robs,      \* search program: what its first statement observed
    args,      \* search: the arguments of the call
    ret,       \* search: the value returned
    files,        \* extract_foundry_with_translations: all_files
    translations, \* extract_foundry_with_translations: the translation map
    journals,     \* extract_foundry_with_translations: the journal map
    xpos,         \* extract_foundry_with_translations: index of the next file
    xentries,     \* extract_foundry_with_translations: entries
    xseen,        \* extract_foundry_with_translations: seen_keys
    xstats,       \* extract_foundry_with_translations: stats
    xerr,         \* extract_foundry_with_translations: an exception escaped
    ppc,       \* parse_htm_file: position
    stem,      \* parse_htm_file: filepath.stem
    content,   \* parse_htm_file: the lines of the file
    parsed,    \* parse_htm_file: the value returned
    fr_lang,   \* lexicon extractors: the file lang/fr.json
    en_lang,   \* lexicon extractors: the file static/lang/en.json
    lpc,       \* main: the lexicon extractor to call next
    lexicon,   \* main: the entries the lexicon extractors appended
    mpc,       \* main (extractor program): position
    local,     \* main: skip_download, the --local flag
    raw,       \* the repositories present under RAW_DIR
    results,   \* main: the value download_repos returned
    mstep,     \* main: index of the extractor to call next
    yields,    \* main: entries each extractor appended to entries
    built,     \* main: create_database was run
    ipc,          \* interactive: position
    user_input,   \* interactive: the line read, stripped
    last_results, \* interactive: last_results
    loop_results, \* interactive: results, what the last call returned
    shown         \* interactive: what the last iteration printed

dbVars == <<disk, prev, bpc, stream, pos, txn, inserted, rpc, rfile, robs,
            args, ret>>

extractVars == <<files, translations, journals, xpos, xentries, xseen, xstats,
                 xerr>>

parseVars == <<ppc, stem, content, parsed>>

lexVars == <<fr_lang, en_lang, lpc, lexicon>>

mainVars == <<mpc, local, raw, results, mstep, yields, built>>

loopVars == <<ipc, user_input, last_results, loop_results, shown>>

vars == <<dbVars, extractVars, parseVars, lexVars, mainVars, loopVars>>

buildVars == <<bpc, stream, pos, txn, inserted>>

NoFile == [exists |-> FALSE, tables |-> FALSE, entries |-> <<>>, meta |-> {}]

NoObs == [kind |-> "none", rows |-> <<>>]

NoArgs ==
    [query |-> <<>>, entry_type |-> "", pack_filter |-> <<>>,
     trait_filter |-> <<>>, limit |-> DefaultLimit]

NoRet == [by_id |-> FALSE, ranked |-> <<>>, results |-> <<>>]

(***************************************************************************)
(* create_database (pf2_extract_v6.py)                                     *)
(***************************************************************************)

\* INSERT OR REPLACE: the later row of a key overwrites the earlier one.
InsertRowReplace(rows, row) ==
    IF \E i \in 1..Len(rows) : PrimaryKey(rows[i]) = PrimaryKey(row)
    THEN [i \in 1..Len(rows) |->
            IF PrimaryKey(rows[i]) = PrimaryKey(row) THEN row ELSE rows[i]]
    ELSE Append(rows, row)

\* INSERT INTO entries under PRIMARY KEY (pack, id): a row whose key is
\* already in the table raises IntegrityError, which the loop swallows.
\* (Every column of an entry is a string, so NOT NULL never fires.)
InsertRow(rows, row) ==
    IF \E i \in 1..Len(rows) : PrimaryKey(rows[i]) = PrimaryKey(row)
    THEN rows
    ELSE Append(rows, row)

\* trans_ct = sum(1 for e in entries if e.get("_translated"))
TransCount(entries) ==
    Cardinality({i \in 1..Len(entries) : entries[i]._translated})

\* stats as main hands it to create_database: one count per category,
\* incremented for every entry appended to the stream.
Stats(entries) ==
    [c \in {entries[i]._pack_type : i \in 1..Len(entries)} |->
        Cardinality({i \in 1..Len(entries) : entries[i]._pack_type = c})]

\* The metadata rows written before the commit.
MetaRows(entries, n) ==
    {<<"total", n>>, <<"translated", TransCount(entries)>>,
     <<"stats", Stats(entries)>>}

RECURSIVE InsertAll(_, _)
InsertAll(rows, entries) ==
    IF entries = <<>> THEN rows
    ELSE InsertAll(InsertRow(rows, RowOf(Head(entries))), Tail(entries))

\* The file a completed create_database(entries) leaves at DB_FILE.
BuiltFile(entries) ==
    LET rows == InsertAll(<<>>, entries)
    IN  [exists |-> TRUE, tables |-> TRUE, entries |-> rows,
         meta |-> MetaRows(entries, Len(rows))]

\* if DB_FILE.exists(): DB_FILE.unlink() -- a connection that has the file
\* open keeps reading the unlinked file.
Unlink ==
    /\ bpc = "start"
    /\ disk' = NoFile
    /\ rfile' = IF rfile = "disk" THEN "prev" ELSE rfile
    /\ bpc' = "unlinked"
    /\ UNCHANGED <<prev, stream, pos, txn, inserted, rpc, robs, args, ret>>
    /\ UNCHANGED <<extractVars, parseVars, lexVars, mainVars, loopVars>>

\* conn = sqlite3.connect(str(DB_FILE)) creates the (empty) file.
BuilderConnect ==
    /\ bpc = "unlinked"
    /\ disk' = [disk EXCEPT !.exists = TRUE]
    /\ bpc' = "connected"
    /\ UNCHANGED <<prev, stream, pos, txn, inserted, rpc, rfile, robs, args, ret>>
    /\ UNCHANGED <<extractVars, parseVars, lexVars, mainVars, loopVars>>

\* CREATE TABLE / INDEX / VIRTUAL TABLE: no transaction is open, so each
\* statement commits at once and the empty tables are visible.
CreateSchema ==
    /\ bpc = "connected"
    /\ disk' = [disk EXCEPT !.tables = TRUE]
    /\ bpc' = "inserting"
    /\ pos' = 1
    /\ txn' = <<>>
    /\ inserted' = 0
    /\ UNCHANGED <<prev, stream, rpc, rfile, robs, args, ret>>
    /\ UNCHANGED <<extractVars, parseVars, lexVars, mainVars, loopVars>>

\* One iteration of  for entry in entries : the INSERT joins the open
\* transaction, invisible to other connections until the commit.
InsertNext ==
    /\ bpc = "inserting"
    /\ pos =< Len(stream)
    /\ LET after == InsertRow(txn, RowOf(stream[pos]))
       IN  /\ txn' = after
           /\ inserted' = IF after = txn THEN inserted ELSE inserted + 1
    /\ pos' = pos + 1
    /\ UNCHANGED <<disk, prev, bpc, stream, rpc, rfile, robs, args, ret>>
    /\ UNCHANGED <<extractVars, parseVars, lexVars, mainVars, loopVars>>

\* The metadata inserts, conn.commit() and conn.close().
Commit ==
    /\ bpc = "inserting"
    /\ pos > Len(stream)
    /\ disk' = [disk EXCEPT !.entries = txn,
                            !.meta = MetaRows(stream, inserted)]
    /\ bpc' = "done"
    /\ UNCHANGED <<prev, stream, pos, txn, inserted, rpc, rfile, robs, args, ret>>
    /\ UNCHANGED <<extractVars, parseVars, lexVars, mainVars, loopVars>>

(***************************************************************************)
(* The search program: main (pf2_search_v5.py)                             *)
(***************************************************************************)

\* if not DB_FILE.exists(): report "Base non trouvee" and return.
ReaderCheck ==
    /\ rpc = "start"
    /\ IF disk.exists
       THEN rpc' = "checked" /\ robs' = robs
       ELSE rpc' = "done" /\ robs' = [kind |-> "missing", rows |-> <<>>]
    /\ UNCHANGED <<disk, prev, buildVars, rfile, args, ret>>
    /\ UNCHANGED <<extractVars, parseVars, lexVars, mainVars, loopVars>>

\* conn = sqlite3.connect(str(DB_FILE)): opens the file the path names now,
\* creating an empty one when it is gone.
ReaderConnect ==
    /\ rpc = "checked"
    /\ disk' = [disk EXCEPT !.exists = TRUE]
    /\ rfile' = "disk"
    /\ rpc' = "connected"
    /\ UNCHANGED <<prev, buildVars, robs, args, ret>>
    /\ UNCHANGED <<extractVars, parseVars, lexVars, mainVars, loopVars>>

\* The file the search program's connection reads.
ReaderFile == IF rfile = "prev" THEN prev ELSE disk

\* SELECT COUNT(*) FROM entries: OperationalError (no such table) ends the
\* program; otherwise the committed rows are what it sees.
ReaderCount ==
    /\ rpc = "connected"
    /\ IF ReaderFile.tables
       THEN /\ rpc' = "counted"
            /\ robs' = [kind |-> "rows", rows |-> ReaderFile.entries]
       ELSE /\ rpc' = "done"
            /\ robs' = [kind |-> "no_table", rows |-> <<>>]
    /\ UNCHANGED <<disk, prev, buildVars, rfile, args, ret>>
    /\ UNCHANGED <<extractVars, parseVars, lexVars, mainVars, loopVars>>

\* results = search(query, conn, entry_type, pack_filter, trait_filter,
\* limit), then conn.close().
Search(query, entry_type, pack_filter, trait_filter, limit) ==
    /\ rpc = "counted"
    /\ args' = [query |-> query, entry_type |-> entry_type,
                pack_filter |-> pack_filter, trait_filter |-> trait_filter,
                limit |-> limit]
    /\ ret' = search(query, ReaderFile.entries, entry_type, pack_filter,
                     trait_filter, limit)
    /\ rpc' = "closed"
    /\ UNCHANGED <<disk, prev, buildVars, rfile, robs>>
    /\ UNCHANGED <<extractVars, parseVars, lexVars, mainVars, loopVars>>

\* results = list_by_trait(conn, trait_filter, entry_type, limit)
ListByTrait(trait, entry_type, limit) ==
    /\ rpc = "counted"
    /\ args' = [query |-> <<>>, entry_type |-> entry_type,
                pack_filter |-> <<>>, trait_filter |-> trait, limit |-> limit]
    /\ ret' = [by_id |-> FALSE, ranked |-> <<>>,
               results |-> list_by_trait(ReaderFile.entries, trait,
                                         entry_type, limit)]
    /\ rpc' = "listed"
    /\ UNCHANGED <<disk, prev, buildVars, rfile, robs>>
    /\ UNCHANGED <<extractVars, parseVars, lexVars, mainVars, loopVars>>

(***************************************************************************)
(* extract_foundry_with_translations: the loop over the record files       *)
(***************************************************************************)

\* One iteration of  for filepath in all_files : a file that does not parse
\* to a dict, a record without _id and a (pack, id) key already seen are
\* skipped; any other record is classified, reconciled and appended.  An
\* exception of the classifier is caught nowhere: it leaves the loop and
\* the function, and no entry list is returned.
ExtractNext ==
    /\ ~xerr
    /\ xpos =< Len(files)
    /\ LET pack_name == files[xpos].pack
           item      == files[xpos].item
           entry_id  == item._id
       IN  IF ~files[xpos].valid \/ entry_id = <<>>
           THEN /\ xpos' = xpos + 1
                /\ UNCHANGED <<xentries, xseen, xstats, xerr>>
           ELSE IF UniqueKey(pack_name, entry_id) \in xseen
           THEN /\ xpos' = xpos + 1
                /\ UNCHANGED <<xentries, xseen, xstats, xerr>>
           ELSE IF DetectRaises(item)
           THEN /\ xerr' = TRUE
                /\ xseen' = xseen \cup {UniqueKey(pack_name, entry_id)}
                /\ UNCHANGED <<xpos, xentries, xstats>>
           ELSE LET trans      == Get(translations, entry_id)
                    entry_type == DetectType(item, pack_name)
                    applied    == apply_translation(item, trans, journals)
                IN  /\ xpos' = xpos + 1
                    /\ xerr' = xerr
                    /\ xseen' = xseen \cup {UniqueKey(pack_name, entry_id)}
                    /\ xentries' = Append(xentries,
                                          FinalEntry(applied, entry_id,
                                                     pack_name, entry_type))
                    /\ xstats' = [c \in DOMAIN xstats \cup {entry_type} |->
                                    IF c = entry_type
                                    THEN (IF c \in DOMAIN xstats
                                          THEN xstats[c] ELSE 0) + 1
                                    ELSE xstats[c]]
    /\ UNCHANGED <<files, translations, journals>>
    /\ UNCHANGED <<dbVars, parseVars, lexVars, mainVars, loopVars>>

(***************************************************************************)
(* parse_htm_file: one annotation file                                     *)
(***************************************************************************)

\* trans = parse_htm_file(filepath, pack_name)
Parse ==
    /\ ppc = "start"
    /\ \E pack_name \in {PkClasses, PkMisc} :
          parsed' = parse_htm_file(stem, content, pack_name)
    /\ ppc' = "done"
    /\ UNCHANGED <<stem, content>>
    /\ UNCHANGED <<dbVars, extractVars, lexVars, mainVars, loopVars>>

(***************************************************************************)
(* main: the lexicon extractors, in the order main calls them              *)
(***************************************************************************)

\* trait_entries = extract_traits(); entries.append for each.
ExtractTraits ==
    /\ lpc = "traits"
    /\ lexicon' = lexicon \o extract_traits(fr_lang, en_lang)
    /\ lpc' = "abilities"
    /\ UNCHANGED <<fr_lang, en_lang>>
    /\ UNCHANGED <<dbVars, extractVars, parseVars, mainVars, loopVars>>

\* npc_ability_entries = extract_npc_abilities(); entries.append for each.
ExtractNpcAbilities ==
    /\ lpc = "abilities"
    /\ lexicon' = lexicon \o extract_npc_abilities(fr_lang, en_lang)
    /\ lpc' = "conditions"
    /\ UNCHANGED <<fr_lang, en_lang>>
    /\ UNCHANGED <<dbVars, extractVars, parseVars, mainVars, loopVars>>

\* condition_entries = extract_conditions(); entries.append for each.
ExtractConditions ==
    /\ lpc = "conditions"
    /\ lexicon' = lexicon \o extract_conditions(fr_lang, en_lang)
    /\ lpc' = "materials"
    /\ UNCHANGED <<fr_lang, en_lang>>
    /\ UNCHANGED <<dbVars, extractVars, parseVars, mainVars, loopVars>>

\* material_entries = extract_materials(); entries.append for each.
ExtractMaterials ==
    /\ lpc = "materials"
    /\ lexicon' = lexicon \o extract_materials(fr_lang, en_lang)
    /\ lpc' = "glossary"
    /\ UNCHANGED <<fr_lang, en_lang>>
    /\ UNCHANGED <<dbVars, extractVars, parseVars, mainVars, loopVars>>

\* glossary_entries = extract_glossary(); entries.append for each.
ExtractGlossary ==
    /\ lpc = "glossary"
    /\ lexicon' = lexicon \o extract_glossary(fr_lang, en_lang)
    /\ lpc' = "done"
    /\ UNCHANGED <<fr_lang, en_lang>>
    /\ UNCHANGED <<dbVars, extractVars, parseVars, mainVars, loopVars>>

(***************************************************************************)
(* main (pf2_extract_v6.py): the pipeline                                  *)
(***************************************************************************)

\* results = download_repos(): without git the result is empty and RAW_DIR
\* is left alone; otherwise each repository is pulled (when present) or
\* cloned, and a repository whose pull and clone both fail is no longer
\* under RAW_DIR.
Download ==
    /\ mpc = "start"
    /\ ~local
    /\ \/ /\ results' = <<>>
          /\ raw' = raw
       \/ \E ok \in [{REPOS[i] : i \in 1..Len(REPOS)} -> BOOLEAN] :
             /\ results' = ok
             /\ raw' = {r \in DOMAIN ok : ok[r]}
    /\ mpc' = "downloaded"
    /\ UNCHANGED <<local, mstep, yields, built>>
    /\ UNCHANGED <<dbVars, extractVars, parseVars, lexVars, loopVars>>

\* if not any(results.values()): "Aucune source disponible!", return
Gate ==
    /\ mpc = "downloaded"
    /\ mpc' = IF AnyFetched(results) THEN "extract" ELSE "nothing"
    /\ UNCHANGED <<local, raw, results, mstep, yields, built>>
    /\ UNCHANGED <<dbVars, extractVars, parseVars, lexVars, loopVars>>

\* skip_download: "Mode local"
SkipDownload ==
    /\ mpc = "start"
    /\ local
    /\ mpc' = "extract"
    /\ UNCHANGED <<local, raw, results, mstep, yields, built>>
    /\ UNCHANGED <<dbVars, extractVars, parseVars, lexVars, loopVars>>

\* One extractor call of main and the appends that follow it (the loading
\* of the translations comes before the first and emits nothing).
CallExtractor ==
    /\ mpc = "extract"
    /\ mstep =< Len(Extractors)
    /\ LET x == Extractors[mstep]
       IN  \E n \in 0..MaxYield :
              /\ (n > 0) => (x.needs \subseteq raw)
              /\ yields' = [yields EXCEPT ![x.name] = n]
    /\ mstep' = mstep + 1
    /\ UNCHANGED <<mpc, local, raw, results, built>>
    /\ UNCHANGED <<dbVars, extractVars, parseVars, lexVars, loopVars>>

\* extract_foundry_with_translations lets an exception escape: main has no
\* handler and the program ends there.
ExtractorRaises ==
    /\ mpc = "extract"
    /\ mstep = 1
    /\ "pf2e" \in raw
    /\ mpc' = "aborted"
    /\ UNCHANGED <<local, raw, results, mstep, yields, built>>
    /\ UNCHANGED <<dbVars, extractVars, parseVars, lexVars, loopVars>>

\* if not entries: "Aucune entree!", return;  else create_database.
BuildOrStop ==
    /\ mpc = "extract"
    /\ mstep > Len(Extractors)
    /\ IF Total(yields) = 0
       THEN /\ mpc' = "nothing"
            /\ built' = FALSE
       ELSE /\ mpc' = "built"
            /\ built' = TRUE
    /\ UNCHANGED <<local, raw, results, mstep, yields>>
    /\ UNCHANGED <<dbVars, extractVars, parseVars, lexVars, loopVars>>

(***************************************************************************)
(* interactive: one iteration of the loop per input line                   *)
(***************************************************************************)

LoopFrame == UNCHANGED <<dbVars, extractVars, parseVars, lexVars, mainVars>>

\* An empty line: continue.
Blank(line) ==
    /\ ipc = "prompt" /\ rpc = "counted"
    /\ InputKind(line) = "blank"
    /\ user_input' = Strip(line)
    /\ shown' = Shown("none", <<>>)
    /\ UNCHANGED <<ipc, last_results, loop_results>>
    /\ LoopFrame

\* q, or the end of the input: break.
Quit(line) ==
    /\ ipc = "prompt" /\ rpc = "counted"
    /\ InputKind(line) = "quit"
    /\ user_input' = Strip(line)
    /\ shown' = Shown("bye", <<>>)
    /\ ipc' = "ended"
    /\ UNCHANGED <<last_results, loop_results>>
    /\ LoopFrame

EndOfInput ==
    /\ ipc = "prompt" /\ rpc = "counted"
    /\ shown' = Shown("bye", <<>>)
    /\ ipc' = "ended"
    /\ UNCHANGED <<user_input, last_results, loop_results>>
    /\ LoopFrame

\* stats, types, packs, traits: print the figures, continue.
Introspect(line) ==
    /\ ipc = "prompt" /\ rpc = "counted"
    /\ InputKind(line) = "introspect"
    /\ user_input' = Strip(line)
    /\ shown' = Shown("figures", <<>>)
    /\ UNCHANGED <<ipc, last_results, loop_results>>
    /\ LoopFrame

\* A number alone: display_full of that result, or the invalid-number
\* message.  int raises on a digit that is not decimal and the exception
\* leaves the loop.
Number(line) ==
    /\ ipc = "prompt" /\ rpc = "counted"
    /\ InputKind(line) = "number"
    /\ user_input' = Strip(line)
    /\ IF IntRaises(Strip(line))
       THEN /\ ipc' = "raised"
            /\ shown' = Shown("none", <<>>)
       ELSE /\ ipc' = ipc
            /\ shown' = Detail(last_results, PyInt(Strip(line)))
    /\ UNCHANGED <<last_results, loop_results>>
    /\ LoopFrame

\* full N: the same; nothing when what follows full is not a number.
Full(line) ==
    LET rest == Strip(SubSeq(Strip(line), 6, Len(Strip(line))))
    IN  /\ ipc = "prompt" /\ rpc = "counted"
        /\ InputKind(line) = "full"
        /\ user_input' = Strip(line)
        /\ IF ~isdigit(rest)
           THEN /\ ipc' = ipc
                /\ shown' = Shown("none", <<>>)
           ELSE IF IntRaises(rest)
           THEN /\ ipc' = "raised"
                /\ shown' = Shown("none", <<>>)
           ELSE /\ ipc' = ipc
                /\ shown' = Detail(last_results, PyInt(rest))
        /\ UNCHANGED <<last_results, loop_results>>
        /\ LoopFrame

\* A trait filter and no query: list_by_trait.
Listing(line) ==
    LET p     == ParseInput(Strip(line))
        found == list_by_trait(ReaderFile.entries, p.trait_filter, p.entry_type,
                               ListingLimit)
    IN  /\ ipc = "prompt" /\ rpc = "counted"
        /\ InputKind(line) = "listing"
        /\ user_input' = Strip(line)
        /\ loop_results' = found
        /\ last_results' = Remember(found, last_results)
        /\ shown' = IF found = <<>> THEN Shown("nothing found", <<>>)
                    ELSE Shown("list", found)
        /\ UNCHANGED ipc
        /\ LoopFrame

\* Filters and no query: ask for a search term.
EmptyQuery(line) ==
    /\ ipc = "prompt" /\ rpc = "counted"
    /\ InputKind(line) = "empty"
    /\ user_input' = Strip(line)
    /\ shown' = Shown("enter a term", <<>>)
    /\ UNCHANGED <<ipc, last_results, loop_results>>
    /\ LoopFrame

\* A query: search.
SearchLine(line) ==
    LET p     == ParseInput(Strip(line))
        found == search(p.query, ReaderFile.entries, p.entry_type, p.pack_filter,
                        p.trait_filter, DefaultLimit).results
    IN  /\ ipc = "prompt" /\ rpc = "counted"
        /\ InputKind(line) = "search"
        /\ user_input' = Strip(line)
        /\ loop_results' = found
        /\ last_results' = Remember(found, last_results)
        /\ shown' = IF found = <<>> THEN Shown("nothing found", <<>>)
                    ELSE Shown("list", found)
        /\ UNCHANGED ipc
        /\ LoopFrame

(***************************************************************************)
(* Specifications                                                          *)
(***************************************************************************)

\* No extraction run: the loop of extract_foundry_with_translations has
\* nothing to read.
ExtractIdle ==
    /\ files = <<>>
    /\ translations = <<>>
    /\ journals = <<>>
    /\ xpos = 1
    /\ xentries = <<>>
    /\ xseen = {}
    /\ xstats = <<>>
    /\ xerr = FALSE

\* No annotation file being parsed.
ParseIdle ==
    /\ ppc = "idle"
    /\ stem = <<>>
    /\ content = <<>>
    /\ parsed = None

\* No lexicon run.
LexIdle ==
    /\ fr_lang = MissingFile
    /\ en_lang = MissingFile
    /\ lpc = "idle"
    /\ lexicon = <<>>

\* No pipeline run.
MainIdle ==
    /\ mpc = "idle"
    /\ local = FALSE
    /\ raw = {}
    /\ results = <<>>
    /\ mstep = 1
    /\ yields = NoYield
    /\ built = FALSE

\* No interactive loop.
LoopIdle ==
    /\ ipc = "idle"
    /\ user_input = <<>>
    /\ last_results = <<>>
    /\ loop_results = <<>>
    /\ shown = [kind |-> "none", entries |-> <<>>]

\* No corpus and no search program.
DbIdle ==
    /\ disk = NoFile
    /\ prev = NoFile
    /\ stream = <<>>
    /\ bpc = "idle"
    /\ pos = 1
    /\ txn = <<>>
    /\ inserted = 0
    /\ rpc = "idle"
    /\ rfile = "none"
    /\ robs = NoObs
    /\ args = NoArgs
    /\ ret = NoRet

\* A rebuild racing a run of the search program, over a previous corpus or
\* none.
InitBuild ==
    /\ prev \in {NoFile, BuiltFile(<<Catalogue[5], Catalogue[4]>>)}
    /\ disk = prev
    /\ stream \in Streams
    /\ bpc = "start"
    /\ pos = 1
    /\ txn = <<>>
    /\ inserted = 0
    /\ rpc = "start"
    /\ rfile = "none"
    /\ robs = NoObs
    /\ args = NoArgs
    /\ ret = NoRet
    /\ ExtractIdle
    /\ ParseIdle
    /\ LexIdle
    /\ MainIdle
    /\ LoopIdle

NextBuild ==
    \/ Unlink
    \/ BuilderConnect
    \/ CreateSchema
    \/ InsertNext
    \/ Commit
    \/ ReaderCheck
    \/ ReaderConnect
    \/ ReaderCount

SpecBuild == InitBuild /\ [][NextBuild]_vars

\* The search program connected to a finished corpus of f fillers and the
\* catalogue entries S.
Connected(f, S) ==
    /\ stream = CorpusEntries(f, S)
    /\ disk = BuiltFile(stream)
    /\ prev = NoFile
    /\ bpc = "done"
    /\ pos = Len(stream) + 1
    /\ txn = disk.entries
    /\ inserted = Len(txn)
    /\ rpc = "counted"
    /\ rfile = "disk"
    /\ robs = [kind |-> "rows", rows |-> disk.entries]
    /\ args = NoArgs
    /\ ret = NoRet
    /\ ExtractIdle
    /\ ParseIdle
    /\ LexIdle
    /\ MainIdle
    /\ LoopIdle

\* Unfiltered searches over corpora with fillers.
InitSearch ==
    \E f \in 0..MaxFill, S \in SmallSubsets :
        f + Cardinality(S) > 0 /\ Connected(f, S)

NextSearch ==
    \E q \in Queries, lim \in Limits : Search(q, "", <<>>, <<>>, lim)

SpecSearch == InitSearch /\ [][NextSearch]_vars

\* Filtered searches over the catalogue corpora.
InitFilter ==
    \E S \in SmallSubsets : S # {} /\ Connected(0, S)

NextFilter ==
    \E q \in FilterQueries, et \in TypeFilters, pf \in PackFilters,
       tf \in TraitFilters, lim \in Limits :
        Search(q, et, pf, tf, lim)

SpecFilter == InitFilter /\ [][NextFilter]_vars

\* Trait listings over the corpora of levelled entries.
InitList ==
    \E S \in SUBSET (1..Len(LevelCatalogue)) :
        /\ S # {}
        /\ stream = LevelEntries(S)
        /\ disk = BuiltFile(stream)
        /\ prev = NoFile
        /\ bpc = "done"
        /\ pos = Len(stream) + 1
        /\ txn = disk.entries
        /\ inserted = Len(txn)
        /\ rpc = "counted"
        /\ rfile = "disk"
        /\ robs = [kind |-> "rows", rows |-> disk.entries]
        /\ args = NoArgs
        /\ ret = NoRet
        /\ ExtractIdle
        /\ ParseIdle
        /\ LexIdle
        /\ MainIdle
        /\ LoopIdle

NextList ==
    \E trait \in ListTraits, et \in {"", "sort", "créature"}, lim \in Limits :
        ListByTrait(trait, et, lim)

SpecList == InitList /\ [][NextList]_vars

\* The interactive loop over the corpora of levelled entries: the first n
\* entries of the catalogue.
InitLoop ==
    \E n \in 1..Len(LevelCatalogue) :
        /\ stream = LevelEntries(1..n)
        /\ disk = BuiltFile(stream)
        /\ prev = NoFile
        /\ bpc = "done"
        /\ pos = Len(stream) + 1
        /\ txn = disk.entries
        /\ inserted = Len(txn)
        /\ rpc = "counted"
        /\ rfile = "disk"
        /\ robs = [kind |-> "rows", rows |-> disk.entries]
        /\ args = NoArgs
        /\ ret = NoRet
        /\ ExtractIdle
        /\ ParseIdle
        /\ LexIdle
        /\ MainIdle
        /\ ipc = "prompt"
        /\ user_input = <<>>
        /\ last_results = <<>>
        /\ loop_results = <<>>
        /\ shown = [kind |-> "none", entries |-> <<>>]

NextLoop ==
    \/ EndOfInput
    \/ \E line \in InputLines :
          \/ Blank(line)
          \/ Quit(line)
          \/ Introspect(line)
          \/ Number(line)
          \/ Full(line)
          \/ Listing(line)
          \/ EmptyQuery(line)
          \/ SearchLine(line)

SpecLoop == InitLoop /\ [][NextLoop]_vars

\* Extraction runs over the record files, under every translation map and
\* journal map.
InitExtract ==
    /\ files \in SeqsUpTo({RecordFiles[i] : i \in 1..Len(RecordFiles)},
                          MaxFiles) \ {<<>>}
    /\ translations \in TranslationMaps
    /\ journals \in JournalMaps
    /\ xpos = 1
    /\ xentries = <<>>
    /\ xseen = {}
    /\ xstats = <<>>
    /\ xerr = FALSE
    /\ DbIdle
    /\ ParseIdle
    /\ LexIdle
    /\ MainIdle
    /\ LoopIdle

NextExtract == ExtractNext

SpecExtract == InitExtract /\ [][NextExtract]_vars

\* Classifier runs: the extraction of one untranslated record file, over
\* every tag, attribute tree and collection name of the classifier inputs.
InitClassify ==
    /\ \E pack \in ClassifierPacks, tag \in ClassifierTags,
          system \in ClassifierSystems :
          files = <<File(pack, 1, <<"Thing">>, tag, system, <<>>)>>
    /\ translations = <<>>
    /\ journals = <<>>
    /\ xpos = 1
    /\ xentries = <<>>
    /\ xseen = {}
    /\ xstats = <<>>
    /\ xerr = FALSE
    /\ DbIdle
    /\ ParseIdle
    /\ LexIdle
    /\ MainIdle
    /\ LoopIdle

NextClassify == ExtractNext

\* Malformed-record runs: a pass over well-formed and malformed files.
InitMalformed ==
    /\ files \in SeqsUpTo({MalformedFiles[i] : i \in 1..Len(MalformedFiles)},
                          MaxFiles) \ {<<>>}
    /\ translations \in {map \in TranslationMaps : DOMAIN map \subseteq {IdOf(3)}}
    /\ journals \in JournalMaps
    /\ xpos = 1
    /\ xentries = <<>>
    /\ xseen = {}
    /\ xstats = <<>>
    /\ xerr = FALSE
    /\ DbIdle
    /\ ParseIdle
    /\ LexIdle
    /\ MainIdle
    /\ LoopIdle

NextMalformed == ExtractNext

SpecMalformed == InitMalformed /\ [][NextMalformed]_vars

SpecClassify == InitClassify /\ [][NextClassify]_vars

\* Parser runs: every stem with one plain content, and every content
\* under one stem.
InitParse ==
    /\ \/ /\ stem \in Stems
          /\ content = << <<"Name:", "Fire", "Bolt">> >>
       \/ /\ stem = Join(<< CHOOSE s \in Segments : Len(s) = 6,
                            CHOOSE s \in Segments : Len(s) = 2,
                            CHOOSE s \in Segments : looks_like_uuid(s) >>)
          /\ content \in Contents
    /\ ppc = "start"
    /\ parsed = None
    /\ DbIdle
    /\ ExtractIdle
    /\ LexIdle
    /\ MainIdle
    /\ LoopIdle

NextParse == Parse

SpecParse == InitParse /\ [][NextParse]_vars

\* Lexicon runs: a drawn language file against a picked one, either way
\* round.
InitLexicon ==
    /\ \/ fr_lang \in LangFiles /\ en_lang \in LangPicks
       \/ fr_lang \in LangPicks /\ en_lang \in LangFiles
    /\ lpc = "traits"
    /\ lexicon = <<>>
    /\ DbIdle
    /\ ExtractIdle
    /\ ParseIdle
    /\ MainIdle
    /\ LoopIdle

NextLexicon ==
    \/ ExtractTraits
    \/ ExtractNpcAbilities
    \/ ExtractConditions
    \/ ExtractMaterials
    \/ ExtractGlossary

SpecLexicon == InitLexicon /\ [][NextLexicon]_vars

\* Pipeline runs: with or without --local, over any set of repositories
\* already under RAW_DIR.
InitPipeline ==
    /\ mpc = "start"
    /\ local \in BOOLEAN
    /\ raw \in SUBSET {REPOS[i] : i \in 1..Len(REPOS)}
    /\ results = <<>>
    /\ mstep = 1
    /\ yields = NoYield
    /\ built = FALSE
    /\ DbIdle
    /\ ExtractIdle
    /\ ParseIdle
    /\ LexIdle
    /\ LoopIdle

NextPipeline ==
    \/ Download
    \/ Gate
    \/ SkipDownload
    \/ CallExtractor
    \/ ExtractorRaises
    \/ BuildOrStop

SpecPipeline == InitPipeline /\ [][NextPipeline]_vars

(***************************************************************************)
(* Properties                                                              *)
(***************************************************************************)

\* The (collection, identifier) pair of a stream entry.
EntryKey(e) == <<e._pack, e._id>>

\* The index of the first entry of the stream with the key of entry i.
FirstIndex(i) ==
    CHOOSE j \in 1..i :
        /\ EntryKey(stream[j]) = EntryKey(stream[i])
        /\ \A k \in 1..(j - 1) : EntryKey(stream[k]) # EntryKey(stream[i])

\* C1: once create_database has finished, no two persisted rows share
\* (collection, identifier); every pair of the stream is persisted, and the
\* row persisted for it is the one of the first stream entry with that pair.
C1_UniqueFirstWins ==
    bpc = "done" =>
        /\ \A i, j \in 1..Len(disk.entries) :
              i # j => <<disk.entries[i].pack, disk.entries[i].id>>
                         # <<disk.entries[j].pack, disk.entries[j].id>>
        /\ \A i \in 1..Len(stream) :
              \E j \in 1..Len(disk.entries) :
                  /\ <<disk.entries[j].pack, disk.entries[j].id>>
                        = EntryKey(stream[i])
                  /\ disk.entries[j].data = stream[FirstIndex(i)]
        /\ \A j \in 1..Len(disk.entries) :
              \E i \in 1..Len(stream) : disk.entries[j].data = stream[i]

\* C1 witness: a finished build whose stream held two different entries
\* with the same pair, so that a later one was dropped.
C1_Witness ==
    /\ bpc = "done"
    /\ Len(disk.entries) < Len(stream)
    /\ \E i, j \in 1..Len(stream) :
          /\ i < j
          /\ EntryKey(stream[i]) = EntryKey(stream[j])
          /\ stream[i] # stream[j]

\* C2: when a previous corpus existed, a run of the search program that
\* raced the rebuild observed the rows of the complete previous corpus or
\* of the complete new one -- never a missing file, missing tables or a
\* table that is still empty.
C2_AllOrNothing ==
    (prev.exists /\ robs.kind # "none") =>
        /\ robs.kind = "rows"
        /\ robs.rows \in {prev.entries, BuiltFile(stream).entries}

\* The value stored in the metadata table under a key.
MetaValue(key) == (CHOOSE r \in disk.meta : r[1] = key)[2]

\* The number of persisted rows whose translated column is 1.
PersistedTranslated ==
    Cardinality({j \in 1..Len(disk.entries) : disk.entries[j].translated = 1})

RECURSIVE SumOver(_, _)
SumOver(f, S) ==
    IF S = {} THEN 0
    ELSE LET c == CHOOSE x \in S : TRUE
         IN  f[c] + SumOver(f, S \ {c})

\* C20: once create_database has finished, the metadata describes the
\* persisted rows: the total is the number of rows, the translated count is
\* the number of rows whose translated flag is set, and the per-category
\* counts sum to the total.
C20_MetadataDescribesRows ==
    bpc = "done" =>
        /\ MetaValue("total") = Len(disk.entries)
        /\ MetaValue("translated") = PersistedTranslated
        /\ SumOver(MetaValue("stats"), DOMAIN MetaValue("stats"))
              = MetaValue("total")

(***************************************************************************)
(* Properties of search                                                    *)
(***************************************************************************)

\* The table the finished call read.
Table == ReaderFile.entries

Returned == {ret.results[i] : i \in 1..Len(ret.results)}

NoFilters ==
    args.entry_type = "" /\ args.pack_filter = <<>> /\ args.trait_filter = <<>>

\* Match class of a name pair against q, compared case-insensitively:
\* 1 a name equals q, 2 a name starts with q, 3 a name contains q, 0 none.
MatchClass(e, q) ==
    LET ql == PyLower(q)
        fr == PyLower(e.name_fr)
        en == PyLower(e.name_en)
    IN  IF fr = ql \/ en = ql THEN 1
        ELSE IF StartsWith(fr, ql) \/ StartsWith(en, ql) THEN 2
        ELSE IF Contains(fr, ql) \/ Contains(en, ql) THEN 3
        ELSE 0

\* C3: with no filters, a returned entry whose name equals the query comes
\* before every returned entry whose name only starts with it, which comes
\* before every returned entry whose name only contains it.
C3_MatchClassOrder ==
    (rpc = "closed" /\ NoFilters) =>
        \A i, j \in 1..Len(ret.results) :
            LET ci == MatchClass(ret.results[i], args.query)
                cj == MatchClass(ret.results[j], args.query)
            IN  (i < j /\ ci > 0 /\ cj > 0) => ci =< cj

\* The first of tiers 2-4 whose statement and trait filter admit the row,
\* 0 when none does.
FirstRawTier(row) ==
    LET ok == {t \in 1..Len(RawTiers) :
                  /\ NameClause(row, RawTiers[t], Strip(PyLower(args.query)))
                  /\ TypeClause(row, args.entry_type)
                  /\ PackClause(row, args.pack_filter)
                  /\ TraitMatch(row.data, args.trait_filter)}
    IN  IF ok = {} THEN 0 ELSE CHOOSE t \in ok : \A u \in ok : t =< u

\* Number of rows tiers 2-4 admit.
RawCount == Cardinality({k \in 1..Len(Table) : FirstRawTier(Table[k]) > 0})

\* Match class at which tiers 2-4 admit the row: 1 exact, 2 prefix,
\* 3 substring, 0 when they do not admit it.
RawClass(row) == (FirstRawTier(row) + 1) \div 2

\* Match class of the accent-folded names against the accent-folded query.
FoldClass(e, q) ==
    LET qn == normalize_text(q)
        fr == normalize_text(e.name_fr)
        en == normalize_text(e.name_en)
    IN  IF fr = qn \/ en = qn THEN 1
        ELSE IF StartsWith(fr, qn) \/ StartsWith(en, qn) THEN 2
        ELSE IF Contains(fr, qn) \/ Contains(en, qn) THEN 3
        ELSE 0

\* Position of a returned entry in the result list.
PosOf(e) == CHOOSE i \in 1..Len(ret.results) : ret.results[i] = e

NameFolds(e, q) ==
    \/ normalize_text(e.name_fr) = normalize_text(q)
    \/ normalize_text(e.name_en) = normalize_text(q)

\* A name of the entry equals the query as tiers 2-4 compare them.
NameEqualsRaw(e, q) ==
    \/ SqliteLower(e.name_fr) = Strip(PyLower(q))
    \/ SqliteLower(e.name_en) = Strip(PyLower(q))

\* C5 (as claimed): with no filters, every entry whose name equals the
\* query up to accents and case is returned, unless the result list is
\* full (limit entries outrank it).
C5_AccentInsensitive ==
    (rpc = "closed" /\ NoFilters) =>
        \A k \in 1..Len(Table) :
            NameFolds(Table[k].data, args.query) =>
                \/ Table[k].data \in Returned
                \/ Len(ret.results) >= args.limit

\* The query has diacritics as the code tests it: its normalisation
\* differs from its lower-cased, trimmed form.
HasDiacritics(q) == normalize_text(q) # Strip(PyLower(q))

\* C5 (amended): with no filters and a query the identifier tier does not
\* answer, every entry whose name equals the query up to accents and case
\* is returned unless the list is full, provided the query has diacritics
\* or tiers 2-4 admitted fewer than 5 entries.
C5_AccentWhenRescan ==
    (rpc = "closed" /\ NoFilters /\ ~ret.by_id
       /\ (HasDiacritics(args.query) \/ RawCount < 5)) =>
        \A k \in 1..Len(Table) :
            NameFolds(Table[k].data, args.query) =>
                \/ Table[k].data \in Returned
                \/ Len(ret.results) >= args.limit

\* C5 witness: both directions -- a query without diacritics returning an
\* entry whose name matches only after folding, and (in another state) a
\* query with diacritics doing so.
C5_Witness ==
    /\ rpc = "closed"
    /\ NoFilters
    /\ ~ret.by_id
    /\ ~HasDiacritics(args.query)
    /\ \E e \in Returned :
          NameFolds(e, args.query) /\ ~NameEqualsRaw(e, args.query)

\* C6: every entry returned through the name tiers satisfies every active
\* filter: category equal, collection name containing the pack filter and
\* some trait containing the trait filter (case-insensitively).
C6_FiltersHold ==
    (rpc = "closed" /\ ~ret.by_id) =>
        \A e \in Returned :
            /\ args.entry_type # "" => e._pack_type = args.entry_type
            /\ args.pack_filter # <<>> =>
                  Contains(PyLower(e._pack), PyLower(args.pack_filter))
            /\ args.trait_filter # <<>> =>
                  \E t \in 1..Len(e.traits) :
                      Contains(PyLower(e.traits[t]), PyLower(args.trait_filter))

\* q has the shape of a bare identifier: at least 8 characters, only
\* alphanumerics and '-', at least one alphanumeric.
BareIdentifier(q) ==
    /\ Len(q) >= 8
    /\ \A i \in 1..Len(q) : IsAlnumChar(q[i]) \/ q[i] = 45
    /\ \E i \in 1..Len(q) : IsAlnumChar(q[i])

\* The query is identifier-shaped and is the identifier of a persisted row.
IdHit ==
    BareIdentifier(args.query) /\ \E k \in 1..Len(Table) : Table[k].id = args.query

\* C7: an identifier-shaped query equal to a persisted identifier returns
\* exactly one entry, the first persisted entry with that identifier,
\* whatever the filters are; any other query is answered by the name
\* tiers.
C7_IdentifierTier ==
    rpc = "closed" =>
        IF IdHit
        THEN /\ ret.by_id
             /\ Len(ret.results) = 1
             /\ ret.results[1]._id = args.query
             /\ LET k == CHOOSE k \in 1..Len(Table) :
                            /\ Table[k].id = args.query
                            /\ \A m \in 1..(k - 1) : Table[m].id # args.query
                IN  ret.results[1] = Table[k].data
        ELSE /\ ~ret.by_id
             /\ Len(ret.results) =< Len(ret.ranked)
             /\ \A i \in 1..Len(ret.results) :
                   ret.results[i] = ret.ranked[i].entry

\* C7 witness: an identifier query answered although the entry fails the
\* category filter and the pack filter given with it.
C7_Witness ==
    /\ rpc = "closed"
    /\ IdHit
    /\ Len(ret.results) = 1
    /\ args.entry_type # ""
    /\ ret.results[1]._pack_type # args.entry_type
    /\ args.pack_filter # <<>>
    /\ ~Contains(PyLower(ret.results[1]._pack), PyLower(args.pack_filter))

\* C8: an empty or blank query returns the empty list.
C8_EmptyQueryEmptyResult ==
    (rpc = "closed" /\ Strip(args.query) = <<>>) => ret.results = <<>>

\* The category filter is the category of no persisted entry.
UnknownCategory ==
    /\ args.entry_type # ""
    /\ \A k \in 1..Len(Table) : Table[k].type # args.entry_type

\* C9 (as claimed): a category filter that no persisted entry has yields
\* zero results for every query.
C9_UnknownCategoryEmpty ==
    (rpc = "closed" /\ UnknownCategory) => ret.results = <<>>

\* C9 (amended): a category filter that no persisted entry has yields zero
\* results for every query that the identifier tier does not answer.
C9_UnknownCategoryEmptyByName ==
    (rpc = "closed" /\ UnknownCategory /\ ~IdHit) => ret.results = <<>>

\* C9 witness: a query that matches a persisted name comes back empty
\* under an unknown category.
C9_Witness ==
    /\ rpc = "closed"
    /\ UnknownCategory
    /\ ~IdHit
    /\ \E k \in 1..Len(Table) : MatchClass(Table[k].data, args.query) = 1
    /\ ret.results = <<>>

\* The score of the first tier that admits the row, 0 when none does.
FirstTierScore(row) ==
    LET e == row.data
    IN  IF FirstRawTier(row) > 0 THEN RawTiers[FirstRawTier(row)].score
        ELSE IF /\ RawCount < 5 \/ HasDiacritics(args.query)
                /\ TraitMatch(e, args.trait_filter)
                /\ args.entry_type # "" => (row.type = args.entry_type
                                            /\ e.type = args.entry_type)
                /\ args.pack_filter # <<>> =>
                      Contains(PyLower(e._pack), PyLower(args.pack_filter))
             THEN NormScore(e, normalize_text(args.query))
             ELSE 0

\* C10: no result list holds two entries with the same (collection,
\* identifier); each admitted entry appears once in the ranking with the
\* score of the first tier that admitted it; the ranking is sorted by
\* descending score, then ascending lower-cased primary-language name; and
\* the result is its first `limit` elements.
C10_DedupSortedPrefix ==
    rpc = "closed" =>
        /\ \A i, j \in 1..Len(ret.results) :
              i # j => <<ret.results[i]._pack, ret.results[i]._id>>
                         # <<ret.results[j]._pack, ret.results[j]._id>>
        /\ ~ret.by_id =>
              /\ \A i, j \in 1..Len(ret.ranked) :
                    i # j => ret.ranked[i].entry # ret.ranked[j].entry
              /\ \A k \in 1..Len(Table) :
                    IF FirstTierScore(Table[k]) > 0
                    THEN \E i \in 1..Len(ret.ranked) :
                            /\ ret.ranked[i].entry = Table[k].data
                            /\ ret.ranked[i].score = FirstTierScore(Table[k])
                    ELSE \A i \in 1..Len(ret.ranked) :
                            ret.ranked[i].entry # Table[k].data
              /\ \A i, j \in 1..Len(ret.ranked) :
                    i < j =>
                      \/ ret.ranked[i].score > ret.ranked[j].score
                      \/ /\ ret.ranked[i].score = ret.ranked[j].score
                         /\ ~StrLess(PyLower(ret.ranked[j].entry.name_fr),
                                     PyLower(ret.ranked[i].entry.name_fr))
              /\ Len(ret.results) = IF Len(ret.ranked) < args.limit
                                    THEN Len(ret.ranked) ELSE args.limit
              /\ \A i \in 1..Len(ret.results) :
                    ret.results[i] = ret.ranked[i].entry

\* C10 witness: an entry that two of tiers 2-4 match is ranked once, and
\* the ranking is longer than the limit, so the cut drops entries.
C10_Witness ==
    /\ rpc = "closed"
    /\ ~ret.by_id
    /\ Len(ret.ranked) > args.limit
    /\ Len(ret.results) = args.limit
    /\ \E k \in 1..Len(Table) :
          /\ Table[k].data \in Returned
          /\ Cardinality({t \in 1..Len(RawTiers) :
                  NameClause(Table[k], RawTiers[t], Strip(PyLower(args.query)))})
                >= 2

(***************************************************************************)
(* Properties of the classifier and of reconciliation                      *)
(***************************************************************************)

\* The emitted entries.
Emitted == {xentries[i] : i \in 1..Len(xentries)}

\* The record file an emitted entry was built from: the first file read
\* that carries its (collection, identifier) key.
SourceOf(e) ==
    LET from == {i \in 1..(xpos - 1) : /\ files[i].valid
                                       /\ files[i].pack = e._pack
                                       /\ files[i].item._id = e._id}
    IN  files[CHOOSE i \in from : \A j \in from : i =< j].item

\* The structural fields of an attribute tree.
HasHp(system) == "attributes" \in DOMAIN system /\ "hp" \in system["attributes"]

HasTraditions(system) == "traditions" \in DOMAIN system

HasPrerequisites(system) == "prerequisites" \in DOMAIN system

HasPrice(system) == "price" \in DOMAIN system

\* The fragments of the collection-name table that the normalised
\* collection name contains.
Fragments(pack_name) ==
    {i \in 1..Len(PACK_TYPE_MAP) :
        Contains(PackLower(pack_name), PACK_TYPE_MAP[i].key)}

\* C11: every emitted entry whose type tag is a key of the type table has
\* that table's category, whatever its attribute tree holds and whatever
\* its collection is named.
C11_TagTableWins ==
    \A e \in Emitted :
        e.type \in DOMAIN TYPE_MAP => e._pack_type = TYPE_MAP[e.type]

\* C11 witness: an entry classified by its tag although both a structural
\* field and its collection name point to other categories.
C11_Witness ==
    \E e \in Emitted :
        /\ e.type = "spell"
        /\ HasHp(e.system)
        /\ HasPrice(e.system)
        /\ Fragments(e._pack) # {}
        /\ \A i \in Fragments(e._pack) : PACK_TYPE_MAP[i].val # "sort"
        /\ e._pack_type = "sort"

\* C12: for an emitted entry whose tag is not in the type table the
\* category is that of the first applicable rule in the order hit points,
\* traditions, prerequisites, price; the collection-name table decides only
\* when no rule applies, and the category is "autre" only when, in
\* addition, the normalised collection name contains no fragment.
C12_StructuralOrder ==
    \A e \in Emitted :
        e.type \notin DOMAIN TYPE_MAP =>
            LET s == e.system
                c == e._pack_type
            IN  /\ HasHp(s) => c = "créature"
                /\ (~HasHp(s) /\ HasTraditions(s)) => c = "sort"
                /\ (~HasHp(s) /\ ~HasTraditions(s) /\ HasPrerequisites(s))
                       => c = "don"
                /\ (/\ ~HasHp(s) /\ ~HasTraditions(s)
                    /\ ~HasPrerequisites(s) /\ HasPrice(s))
                       => c = "équipement"
                /\ (/\ ~HasHp(s) /\ ~HasTraditions(s)
                    /\ ~HasPrerequisites(s) /\ ~HasPrice(s))
                       => IF Fragments(e._pack) = {}
                          THEN c = "autre"
                          ELSE \E i \in Fragments(e._pack) :
                                  /\ c = PACK_TYPE_MAP[i].val
                                  /\ \A j \in Fragments(e._pack) : i =< j
                /\ c = "autre" =>
                       /\ ~HasHp(s) /\ ~HasTraditions(s)
                       /\ ~HasPrerequisites(s) /\ ~HasPrice(s)
                       /\ Fragments(e._pack) = {}

\* C12 witness: an entry with an unknown tag and all four structural
\* fields, in a collection whose name holds a fragment of another
\* category, classified as a creature.
C12_Witness ==
    \E e \in Emitted :
        /\ e.type \notin DOMAIN TYPE_MAP
        /\ HasHp(e.system)
        /\ HasTraditions(e.system)
        /\ HasPrerequisites(e.system)
        /\ HasPrice(e.system)
        /\ Fragments(e._pack) # {}
        /\ e._pack_type = "créature"

\* The translation an emitted entry was reconciled with.
TransOf(e) == translations[e._id]

\* The pages of the journal map that the cross-references of the entry's
\* resolved description point to.
NarrativePages(e) ==
    LET desc == Or(TransOf(e).desc_fr, TransOf(e).desc_en)
    IN  {PageRef(desc[i]) : i \in 1..Len(desc)} \cap DOMAIN journals

\* The class-like categories.
ClassLike == {"classe", "ascendance", "archétype"}

\* C13: an emitted entry whose identifier is not a key of the translation
\* map is untranslated, has both names equal to the name of its record and
\* an empty description.
C13_UntranslatedFallback ==
    \A e \in Emitted :
        e._id \notin DOMAIN translations =>
            /\ e._translated = FALSE
            /\ e.name_fr = SourceOf(e).name
            /\ e.name_en = SourceOf(e).name
            /\ e.description = <<>>

\* C13 witness: an untranslated, named entry emitted under a translation
\* map that translates other records.
C13_Witness ==
    \E e \in Emitted :
        /\ e._id \notin DOMAIN translations
        /\ DOMAIN translations # {}
        /\ e.name_fr # <<>>
        /\ e.name_fr = SourceOf(e).name

C15_SubRecordsResolved ==
    \A e \in Emitted :
        \A k \in 1..Len(e.items) :
            LET sub == e.items[k]
                keyed == /\ e._id \in DOMAIN translations
                         /\ sub._id \in DOMAIN TransOf(e).items
            IN  sub._id # <<>> =>
                    /\ {"_translated", "name_fr", "name_en"} \subseteq DOMAIN sub
                    /\ IF keyed
                       THEN /\ sub._translated = TRUE
                            /\ sub.name_fr = TransOf(e).items[sub._id].name_fr
                       ELSE /\ sub._translated = FALSE
                            /\ sub.name_fr = sub.name
                            /\ sub.name_en = sub.name

\* C16 (as claimed): a translated entry of a class-like category whose
\* resolved description holds a cross-reference to a page of the journal
\* map has that page's narrative as its description and carries the
\* _has_journal flag; every other translated entry has the translation's
\* description and no flag.
C16_JournalNarrative ==
    \A e \in Emitted :
        e._id \in DOMAIN translations =>
            IF e._pack_type \in ClassLike /\ NarrativePages(e) # {}
            THEN /\ \E p \in NarrativePages(e) : e.description = journals[p]
                 /\ "_has_journal" \in DOMAIN e
            ELSE /\ e.description = TransOf(e).desc_fr
                 /\ "_has_journal" \notin DOMAIN e

(***************************************************************************)
(* Properties of the annotation parser                                     *)
(***************************************************************************)

\* The positions of the separator '-' in the stem.
Separators == {i \in 1..Len(stem) : stem[i] = 45}

\* The part of the stem after its last separator.
LastSegment ==
    SubSeq(stem, (CHOOSE i \in Separators : \A j \in Separators : j =< i) + 1,
           Len(stem))

\* Exactly 16 alphanumeric characters.
SixteenAlnum(s) == Len(s) = 16 /\ \A i \in 1..16 : IsAlnumChar(s[i])

\* C17: the identifier of a returned record depends on the stem only: it
\* is the part after the last '-' when the stem has a separator and that
\* part is exactly 16 alphanumeric characters, and the stem itself in every
\* other case (a bare stem of 16 alphanumeric characters included).
C17_ResolverByStem ==
    (ppc = "done" /\ parsed # None) =>
        parsed.uuid = IF Separators # {} /\ SixteenAlnum(LastSegment)
                      THEN LastSegment
                      ELSE stem

\* C17 witness: a stem of three segments resolved to its last segment.
C17_Witness ==
    /\ ppc = "done"
    /\ parsed # None
    /\ Cardinality(Separators) = 2
    /\ \A i \in Separators : i > 1 /\ i - 1 \notin Separators
    /\ parsed.uuid = LastSegment
    /\ SixteenAlnum(parsed.uuid)

LabelValueOwn(lines, label) ==
    LET cut == {i \in 1..Len(lines) : lines[i] = <<ItemsHeader>>}
    IN  IF cut = {} THEN LabelValue(lines, label)
        ELSE LabelValue(SubSeq(lines, 1,
                               (CHOOSE i \in cut : \A j \in cut : i =< j) - 1),
                        label)

\* C19 (as claimed): the parser returns no record exactly when the unit
\* has neither a Name: nor a Nom: line of its own, and the names of a
\* returned record are those of the unit's own lines, never those of a
\* sub-item block.
C19_OwnNamesOnly ==
    ppc = "done" =>
        /\ (parsed = None) =
               (/\ LabelValueOwn(content, "Name:") = <<>>
                /\ LabelValueOwn(content, "Nom:") = <<>>)
        /\ parsed # None =>
               parsed.name_en = LabelValueOwn(content, "Name:")

(***************************************************************************)
(* Properties of the lexicon extractors                                    *)
(***************************************************************************)

\* The family of a lexicon entry is the collection it is emitted into.
FamilyKey(e) == <<e._pack, e._id>>

\* C21: the lexicon extractors never emit two entries of the same family
\* with the same identifier, whatever the two language dictionaries hold.
C21_UniqueWithinFamily ==
    \A i, j \in 1..Len(lexicon) :
        (i # j) => FamilyKey(lexicon[i]) # FamilyKey(lexicon[j])

\* An identifier of the form <family>-<key>: a non-empty prefix, a '-' and
\* the rest.
HasFamilyPrefix(id) == \E k \in 2..Len(id) : id[k] = 45

\* C22: every entry of every family of the lexicon has an identifier of the
\* form <concept-family>-<key>.
C22_FamilyPrefixedIdentifier ==
    \A i \in 1..Len(lexicon) : HasFamilyPrefix(lexicon[i]._id)

\* The display names a language file gives the traits (its Trait<Key>
\* labels) and the materials (its PreciousMaterial<Key> names), by key.
TraitLabels(lang) ==
    ValuesOf(LowerDict(SelectSeq(ItemsAt(lang, "PF2E"), LAMBDA it :
                           /\ StartsWith(it.key, KTrait)
                           /\ ~StartsWith(it.key, KTraitDescription)),
                       KTrait))

MaterialNames(lang) ==
    ValuesOf(LowerDict(SelectSeq(ItemsAt(lang, "PF2E"), LAMBDA it :
                           /\ StartsWith(it.key, KPreciousMaterial)
                           /\ ~Contains(it.key, KDescription)
                           /\ ~Contains(it.key, KGrade)
                           /\ ~Contains(it.key, KLabel)),
                       KPreciousMaterial))

\* The key of a trait entry is its identifier; the key of a material entry
\* follows "material-".
DisplayNames(e, lang) ==
    IF e._pack = PackTraits THEN TraitLabels(lang) ELSE MaterialNames(lang)

KeyOf(e) ==
    IF e._pack = PackTraits THEN e._id
    ELSE SubSeq(e._id, Len(IdMaterial) + 1, Len(e._id))

\* C23: every lexicon entry has both names non-empty, and a trait or a
\* material whose display name only one language file gives carries that
\* name in both languages.
C23_BothNamesFallBack ==
    \A i \in 1..Len(lexicon) :
        LET e == lexicon[i]
            k == KeyOf(e)
            fr_given == k \in DOMAIN DisplayNames(e, fr_lang)
                          /\ DisplayNames(e, fr_lang)[k] # <<>>
            en_given == k \in DOMAIN DisplayNames(e, en_lang)
                          /\ DisplayNames(e, en_lang)[k] # <<>>
        IN  /\ e.name_fr # <<>>
            /\ e.name_en # <<>>
            /\ (e._pack \in {PackTraits, PackMaterials}) =>
                  /\ (en_given /\ ~fr_given) =>
                        e.name_fr = DisplayNames(e, en_lang)[k]
                  /\ (fr_given /\ ~en_given) =>
                        e.name_en = DisplayNames(e, fr_lang)[k]

(***************************************************************************)
(* Properties of the pass over the record files                            *)
(***************************************************************************)

\* A record file the pass has to turn into an entry: a JSON object with an
\* identifier and an attribute tree that is a mapping.
WellFormed(f) == f.valid /\ f.item._id # <<>> /\ f.item.system # NullSystem

\* C24: no exception leaves the pass, and once the pass is over every
\* well-formed file of it has its entry, whatever malformed files the pass
\* met.
C24_MalformedSkipped ==
    /\ ~xerr
    /\ (xpos > Len(files)) =>
          \A i \in 1..Len(files) :
              WellFormed(files[i]) =>
                  \E k \in 1..Len(xentries) :
                      /\ xentries[k]._id = files[i].item._id
                      /\ xentries[k]._pack = files[i].pack

(***************************************************************************)
(* Properties of the pipeline                                              *)
(***************************************************************************)

Ranked == {ret.ranked[i].entry : i \in 1..Len(ret.ranked)}

\* C28: under a category filter, every row of that category whose
\* normalised name matches the normalised query and that passes the pack
\* and trait filters is admitted when the re-scan runs, whatever the type
\* tag of its entry.
C28_RescanAdmitsCategory ==
    (/\ rpc = "closed"
     /\ ~ret.by_id
     /\ args.entry_type # ""
     /\ RawCount < 5 \/ HasDiacritics(args.query)) =>
        \A k \in 1..Len(Table) :
            (/\ Table[k].type = args.entry_type
             /\ NormScore(Table[k].data, normalize_text(args.query)) > 0
             /\ TraitMatch(Table[k].data, args.trait_filter)
             /\ args.pack_filter # <<>> =>
                   Contains(PyLower(Table[k].data._pack),
                            PyLower(args.pack_filter)))
                => Table[k].data \in Ranked

\* C29: an entry ranked with the score of a prefix tier has a lower-cased
\* name that starts with the lower-cased query, and an entry ranked with
\* the score of a substring tier has one that contains it, also when the
\* query holds '%' or '_'.
C29_NoWildcards ==
    (rpc = "closed" /\ ~ret.by_id) =>
        \A i \in 1..Len(ret.ranked) :
            LET r  == ret.ranked[i]
                ql == Strip(PyLower(args.query))
                fr == PyLower(r.entry.name_fr)
                en == PyLower(r.entry.name_en)
            IN  /\ (r.score = 500) => StartsWith(fr, ql)
                /\ (r.score = 450) => StartsWith(en, ql)
                /\ (r.score = 200) => Contains(fr, ql)
                /\ (r.score = 150) => Contains(en, ql)

(***************************************************************************)
(* Properties of list_by_trait                                             *)
(***************************************************************************)

\* The entries list_by_trait has to choose from: those of the category (if
\* one is given) with a trait that contains the trait asked for.
Listable ==
    {Table[k].data : k \in {j \in 1..Len(Table) :
        /\ TypeClause(Table[j], args.entry_type)
        /\ HasTrait(Table[j].data, args.trait_filter)}}

\* The sort key the listing is claimed to follow: the level get_level
\* reads, then the lower-cased name.
LevelNameOrdered(a, b) ==
    \/ ListKeyLevel(a) < ListKeyLevel(b)
    \/ /\ ListKeyLevel(a) = ListKeyLevel(b)
       /\ ~StrLess(PyLower(b.name_fr), PyLower(a.name_fr))

\* C26: list_by_trait returns entries with the trait (of the category, if
\* given), all of them when they fit the limit and limit of them otherwise,
\* in ascending order of the level get_level reads and then of name.
C26_ListedByLevel ==
    (rpc = "listed") =>
        /\ \A i \in 1..Len(ret.results) : ret.results[i] \in Listable
        /\ Len(ret.results) =
              IF Cardinality(Listable) < args.limit
              THEN Cardinality(Listable) ELSE args.limit
        /\ \A i, j \in 1..Len(ret.results) :
              (i < j) => LevelNameOrdered(ret.results[i], ret.results[j])

(***************************************************************************)
(* Properties of the interactive loop                                      *)
(***************************************************************************)

\* The digits of the detail request the loop has just handled, <<>> when
\* the line was no detail request: N alone, or what follows full.
AskedDigits ==
    LET rest == Strip(SubSeq(user_input, 6, Len(user_input)))
    IN  IF isdigit(user_input) THEN <<user_input>>
        ELSE IF StartsWith(PyLower(user_input), FullPrefix) /\ isdigit(rest)
        THEN <<rest>>
        ELSE <<>>

\* C27: after any sequence of input lines, a detail request N or full N
\* displays the N-th entry of the list the most recent search or trait
\* listing returned when N is within that list, and otherwise displays no
\* entry, with the invalid-number message for N alone.
C27_DetailOfLatestResults ==
    (ipc = "prompt" /\ AskedDigits # <<>>) =>
        LET n == PyInt(AskedDigits[1])
        IN  IF 1 =< n /\ n =< Len(loop_results)
            THEN shown = [kind |-> "full", entries |-> <<loop_results[n]>>]
            ELSE /\ shown.entries = <<>>
                 /\ isdigit(user_input) => shown.kind = "invalid"

\* The second entry of a list of at least two, displayed on request.
C27_Witness ==
    /\ ipc = "prompt"
    /\ AskedDigits # <<>>
    /\ PyInt(AskedDigits[1]) = 2
    /\ Len(loop_results) >= 2
    /\ shown.entries = <<loop_results[2]>>

\* C30: the remembered result list changes only in an iteration that ran a
\* search or a trait listing, and then becomes the list displayed, the
\* empty list when nothing was found; blank lines, introspection commands,
\* detail requests, lines that reduce to filters and the end of the input
\* leave it as it was.
C30_RememberedListFrame ==
    [][LET kind == InputKind(user_input')
       IN  IF ipc' = "prompt" /\ kind \in {"listing", "search"}
           THEN /\ shown'.kind \in {"list", "nothing found"}
                /\ shown'.kind = "list" => last_results' = shown'.entries
                /\ shown'.kind = "nothing found" => last_results' = <<>>
           ELSE last_results' = last_results]_vars

\* A line that reduces to filters, read while a list is remembered.
C30_Witness ==
    /\ ipc = "prompt"
    /\ InputKind(user_input) = "empty"
    /\ shown.kind = "enter a term"
    /\ last_results # <<>>

====
